---- MODULE Spec2Model ----
(***************************************************************************)
(* Verification model of the cube viewer's interaction core (src/App.jsx): *)
(* the selection state machine (applyFaceSelection / returnToDefault), the *)
(* tween registry (animRef) with its producers (animateOpacity,            *)
(* animateScale, animateCameraToPreset, playIntroNow) and the per-frame    *)
(* Animator.                                                               *)
(*                                                                         *)
(* Numbers are fixed point: opacity, scale, easing fractions, distances    *)
(* and positions in thousandths, angles in milliradians, field of view in  *)
(* thousandths of a degree, time in milliseconds.                          *)
(***************************************************************************)
EXTENDS Integers, Sequences, FiniteSets, TLC

(* ------------------------------ bounds -------------------------------- *)

\* Number of blocks of the scene that are loaded (a prefix of cubeNames).
NumCubes == 2
\* Number of selectable face meshes under each block.
FacesPerCube == 2
\* The clock stops advancing here (performance.now() is unbounded).
MaxNow == 625
\* Number of calls from outside (taps, resets, intro replays) in one run.
MaxCalls == 2
\* Angles handed to the angle functions reach this many quarter turns either
\* way.
MaxQuarterTurns == 5
\* Significant bits a number keeps after each arithmetic operation (an IEEE
\* double keeps 53).
FloatBits == 4
\* Largest value handed to a tween as a start, bounce or end value, in units
\* of 1/FloatOne.
MaxFloat == 80
\* Latest time at which a script is started, and at which frames still come
\* while no script runs.
MaxIdleNow == 500
\* The clock's limit in the runs that follow camera tweens to their end.
MaxLongNow == 1500

(* ------------------------- program constants -------------------------- *)

SELECTED_CUBE_SCALE == 1280
SELECTED_CUBE_BOUNCE == 1380
DIMMED_CUBE_SCALE == 820
DIMMED_CUBE_BOUNCE == 760
DIMMED_FACE_OPACITY == 150
CLICK_INTERACTION_FOV == 26000
\* Opacity the face-switch branch first asks for on the previous face.
FaceSwitchOldOpacity == 200
FullOpacity == 1000
NeutralScale == 1000
ResetScaleBounce == 800
OpacityDur == 250
ScaleDur == 260
CameraDur == 900
DebounceMs == 500
\* midT of the two-segment scale curve (0.55).
MidT == 550
\* The dolly lead factor 1.12, in hundredths.
DollyLead == 112
PI == 3142
TAU == 2 * PI
\* Leva defaults.
cameraFov == 45000
babylonClickDistance == 18000
cameraDistanceDefault == 20000
presetYawOffset == 0
presetPolarOffset == 0
introFaceFadeMs == 3170
introCenterMs == 3200
\* introBackEase 0.92 and introSpinTurns 8.3.
introBackEase == 920
introSpinTurnsTenths == 83
defaultPoseAzimuth == -2983
defaultPosePolar == 2051
defaultPoseDistance == 20000
\* Intro slide of the "Center" object: rest x, start offset, rest rotation y.
CenterRestX == 55
CenterSlideOffset == 150000
CenterRestRotY == 10059
\* OrbitControls limits written by BabylonConstraints.
FreeMinDistance == 5000
FreeMaxDistance == 120000
FreeMinPolar == 200
FreeMaxPolar == PI - 200
BabylonMinPolar == 500
BabylonMaxPolar == 2640
\* clamp bounds of the solved polar angle (0.001, PI - 0.001).
PoseMinPolar == 1
PoseMaxPolar == PI - 1

\* The block names known to the program; the home block first, then a
\* sample of the other 26 names.
cubeNames ==
  <<"top_block_5", "mid_block_5", "btm_block_1", "top_block_2", "btm_block_2">>

HomeCube == "top_block_5"

NoCube == "none"
NoFace == [cube |-> NoCube, idx |-> 0]
NoTween == [dur |-> 0]
NoOverride == -1

AllCubes == {cubeNames[i] : i \in 1..NumCubes}
AllFaces == [cube : AllCubes, idx : 1..FacesPerCube]

\* Meshes a caller can hand to applyFaceSelection: a face mesh, the body
\* (structural) mesh of a block, a mesh under no known block, or nothing.
BodyMeshes == [cube : AllCubes, idx : {0}]
StrayMesh == [cube |-> "Center", idx |-> 1]
Meshes == AllFaces \cup BodyMeshes \cup {StrayMesh, NoFace}

(* --------------------------- pure functions --------------------------- *)

clamp(v, lo, hi) == IF v < lo THEN lo ELSE IF v > hi THEN hi ELSE v

Min(a, b) == IF a < b THEN a ELSE b
Max(a, b) == IF a > b THEN a ELSE b

\* JavaScript's % keeps the sign of the dividend.
JsRem(a, b) == IF a >= 0 THEN a % b ELSE -((-a) % b)

\* t in thousandths -> eased fraction in thousandths.
easeInOutCubic(t) ==
  IF 2 * t < 1000
    THEN (4 * t * t * t) \div 1000000
    ELSE 1000 - (((2000 - 2 * t) * (2000 - 2 * t) * (2000 - 2 * t)) \div 2000000)

easeOutCubic(t) ==
  1000 - (((((1000 - t) * (1000 - t)) \div 1000) * (1000 - t)) \div 1000)

easeOutBack(t, amplitude) ==
  LET c1 == (1702 * amplitude) \div 1000
      c3 == c1 + 1000
      u  == t - 1000
      u2 == (u * u) \div 1000
      u3 == (u2 * u) \div 1000
  IN  1000 + ((c3 * u3) \div 1000) + ((c1 * u2) \div 1000)

normalizeAngle0ToTau(angle) == JsRem(JsRem(angle, TAU) + TAU, TAU)

normalizeAngleMinusPiToPi(angle) == JsRem(JsRem(angle + PI, TAU) + TAU, TAU) - PI

\* A faulty shortestAngleDelta: the difference is wrapped down but never up.
shortestAngleDeltaWrapsDownOnly(from, to) ==
  LET a  == normalizeAngle0ToTau(from)
      b  == normalizeAngle0ToTau(to)
      d0 == b - a
  IN  IF d0 > PI THEN d0 - TAU ELSE d0

shortestAngleDelta(from, to) ==
  LET a  == normalizeAngle0ToTau(from)
      b  == normalizeAngle0ToTau(to)
      d0 == b - a
      d1 == IF d0 > PI THEN d0 - TAU ELSE d0
  IN  IF d1 < -PI THEN d1 + TAU ELSE d1

\* A faulty fraction: capped at 1.2, not at 1, when a frame comes after the
\* end.
FractionCappedLate(t, tw) == Min(1200, ((t - tw.t0) * 1000) \div tw.dur)

\* Elapsed fraction of a tween at time t, in thousandths: min(1, (now-t0)/dur).
Fraction(t, tw) == Min(1000, ((t - tw.t0) * 1000) \div tw.dur)

\* from + (to - from) * e
Lerp(from, to, e) == from + (((to - from) * e) \div 1000)


(* ------------------------------- state -------------------------------- *)

VARIABLES
  ready,                      \* didSetupRef: onModelReady has filled interactionRef
  now,                        \* performance.now()
  opacity,                    \* face mesh -> material.opacity
  glow,                       \* face mesh -> emissive glow / bloom layer set
  scale,                      \* block -> scale.x
  animOpacity,                \* animRef.current.opacity
  animScale,                  \* animRef.current.scale
  animCamera,                 \* animRef.current.camera
  animCenter,                 \* animRef.current.center
  center,                     \* the "Center" object: position.x, rotation.y
  cam,                        \* what the orbit controls report: az, pol, dist, fov
  controls,                   \* OrbitControls: enabled and its limits
  levaCameraDistance,         \* values.cameraDistance
  cameraAnimLock,             \* cameraAnimLockRef
  selectedCubeNameRef,
  currentlyExpandedCubeName,
  currentlyClickedFace,
  lastSelectionAt,            \* lastSelectionAtRef
  panelState,                 \* primary / secondary panel, by face
  notified,                   \* last pose handed to onCameraAnimEnd
  lastOp,                     \* history: the last call from outside, its input,
                              \* the branch it took and the selection it found
  calls,                      \* history: number of calls from outside so far
  probe,                      \* a function under study: its inputs and its result
  isDemoRunning,              \* runDemo is between its start and its cleanup
  isPanelDemoRunning,         \* runPanelDemo is between its start and its cleanup
  pointerDownRef,             \* the press being tracked
  lastPointerUpRef,           \* pointer id and time stamp of the last release handled
  lastResolvedTapRef,         \* the last tap handed to applyFaceSelection
  suppressOrbitSyncUntilRef,
  timerRef,                   \* the inactivity timer: timerRef.current.active, when
                              \* its timeout is due, and the due times of the
                              \* timeouts set and neither cleared nor run
  demoCursor,                 \* the script's cursor marker: visible or not
  script,                     \* the running script: its name, next step, wake-up time
  lastUp,                     \* history: position and outcome of the last release
                              \* put on record
  held                        \* history: per pointer id, whether the pointer is
                              \* down on the model, the farthest it has been
                              \* from where it went down, and the camera pose
                              \* at a press made while guided mode is off

animVars == <<animOpacity, animScale, animCamera, animCenter>>
sceneVars == <<opacity, glow, scale, center, cam>>
selVars ==
  <<selectedCubeNameRef, currentlyExpandedCubeName, currentlyClickedFace, lastSelectionAt>>
ctlVars == <<controls, levaCameraDistance, cameraAnimLock, notified>>
appVars ==
  <<ready, now, animVars, sceneVars, selVars, ctlVars, panelState, lastOp, calls>>
\* State outside the application proper.
gestureVars == <<pointerDownRef, lastPointerUpRef, lastResolvedTapRef, lastUp, held>>
guidedVars == <<isDemoRunning, isPanelDemoRunning, demoCursor, script>>
uiVars == <<gestureVars, guidedVars, suppressOrbitSyncUntilRef, timerRef>>
auxVars == <<probe, uiVars>>
vars == <<appVars, auxVars>>

\* The lookup tables of interactionRef, empty until the model is ready.
cubesByName == IF ready THEN AllCubes ELSE {}
allFaceMeshes == IF ready THEN AllFaces ELSE {}

NoOp ==
  [op |-> "init", mesh |-> NoFace, allowHomeReset |-> FALSE, distanceOverride |-> NoOverride,
   path |-> "", prevCube |-> NoCube, prevFace |-> NoFace]

Op(name, mesh, allowHomeReset, distanceOverride, path) ==
  [op |-> name, mesh |-> mesh, allowHomeReset |-> allowHomeReset,
   distanceOverride |-> distanceOverride, path |-> path,
   prevCube |-> selectedCubeNameRef, prevFace |-> currentlyClickedFace]

AppInit ==
  /\ ready = FALSE
  /\ now = 0
  /\ opacity = [f \in AllFaces |-> FullOpacity]
  /\ glow = [f \in AllFaces |-> FALSE]
  /\ scale = [c \in AllCubes |-> NeutralScale]
  /\ animOpacity = [f \in AllFaces |-> NoTween]
  /\ animScale = [c \in AllCubes |-> NoTween]
  /\ animCamera = NoTween
  /\ animCenter = NoTween
  /\ center = [x |-> CenterRestX, rotY |-> CenterRestRotY]
  /\ cam = [az |-> defaultPoseAzimuth, pol |-> defaultPosePolar,
            dist |-> cameraDistanceDefault, fov |-> cameraFov]
  /\ controls = [enabled |-> TRUE,
                 minDistance |-> FreeMinDistance, maxDistance |-> FreeMaxDistance,
                 minPolar |-> FreeMinPolar, maxPolar |-> FreeMaxPolar]
  /\ levaCameraDistance = cameraDistanceDefault
  /\ cameraAnimLock = FALSE
  /\ selectedCubeNameRef = NoCube
  /\ currentlyExpandedCubeName = NoCube
  /\ currentlyClickedFace = NoFace
  /\ lastSelectionAt = -1
  /\ panelState = [primary |-> NoFace, secondary |-> NoFace]
  /\ notified = NoTween
  /\ lastOp = NoOp
  /\ calls = 0

\* No function is under study while the application runs.
NoProbe == [fn |-> "none"]

\* The start pose of a press that has not been made: no camera is at
\* distance 0.
NoPose == [az |-> 0, pol |-> 0, dist |-> 0]
\* null, where a pointer id or a time is expected.
Null == -1
NoScript == [name |-> "none", pc |-> 0, wakeAt |-> 0]

UiInit ==
  /\ isDemoRunning = FALSE
  /\ isPanelDemoRunning = FALSE
  /\ pointerDownRef = [active |-> FALSE, pointerId |-> Null, x |-> 0, downAt |-> Null,
                       maxFromStart |-> 0, start |-> NoPose]
  /\ lastPointerUpRef = [pointerId |-> Null, timeStamp |-> Null]
  /\ lastResolvedTapRef = [time |-> Null, x |-> Null, pointerType |-> "", face |-> NoFace]
  /\ suppressOrbitSyncUntilRef = 0
  /\ timerRef = [active |-> FALSE, due |-> 0, pending |-> {}]
  /\ demoCursor = FALSE
  /\ script = NoScript
  /\ lastUp = [x |-> 0, outcome |-> ""]
  /\ held = [id \in 1..2 |-> [down |-> FALSE, farthest |-> 0, start |-> NoPose]]

Init == AppInit /\ UiInit /\ probe = NoProbe

(* --------------------------- tween producers -------------------------- *)

\* A faulty animateOpacity: a replaced tween hands over its target, not the
\* value on screen.
animateOpacityFromOldTarget(reg, mesh, to) ==
  [reg EXCEPT ![mesh] =
     [from |-> IF reg[mesh] # NoTween THEN reg[mesh].to ELSE opacity[mesh],
      to |-> to, t0 |-> now, dur |-> OpacityDur]]

\* animateOpacity(mesh, to, dur = 250): upsert, starting at the mesh's own
\* current opacity.
animateOpacity(reg, mesh, to) ==
  [reg EXCEPT ![mesh] =
     [from |-> opacity[mesh], to |-> to, t0 |-> now, dur |-> OpacityDur]]

\* animateScale(obj, to, bounce, dur = 260)
animateScale(reg, obj, to, bounce) ==
  [reg EXCEPT ![obj] =
     [from |-> scale[obj], bounce |-> bounce, to |-> to, t0 |-> now, dur |-> ScaleDur]]

\* The forEach loops over cubesByName / allFaceMeshes (distinct keys).
ScaleEach(reg, to, bounce) ==
  [c \in AllCubes |->
     IF c \in cubesByName THEN animateScale(reg, c, to[c], bounce[c])[c] ELSE reg[c]]

OpacityEach(reg, skip, to) ==
  [f \in AllFaces |->
     IF f \in allFaceMeshes \ skip THEN animateOpacity(reg, f, to[f])[f] ELSE reg[f]]

\* resetAllCubes: the registries after it.
resetAllCubesScale(reg) ==
  ScaleEach(reg, [c \in AllCubes |-> NeutralScale], [c \in AllCubes |-> ResetScaleBounce])

resetAllCubesOpacity(reg) ==
  OpacityEach(reg, {}, [f \in AllFaces |-> FullOpacity])

\* A faulty resetAllCubes: the glow of the faces is left on.
resetAllCubesGlowKept == glow

resetAllCubesGlow == [f \in AllFaces |-> IF f \in allFaceMeshes THEN FALSE ELSE glow[f]]

\* A faulty animateCameraToPreset: started over a tween in flight, it begins
\* where that tween was heading.
animateCameraToPresetFromOldEnd(to, toFov) ==
  LET inFlight == animCamera # NoTween
      az0 == IF inFlight THEN animCamera.fromAz + animCamera.dAz ELSE cam.az
  IN  [t0 |-> now, dur |-> CameraDur,
       fromAz |-> az0, dAz |-> shortestAngleDelta(az0, to.azimuth),
       fromPol |-> IF inFlight THEN animCamera.toPol ELSE cam.pol, toPol |-> to.polar,
       fromDist |-> IF inFlight THEN animCamera.toDist ELSE cam.dist,
       toDist |-> to.distance,
       lockDistanceAtEnd |-> TRUE,
       fromFov |-> IF inFlight THEN animCamera.toFov ELSE cam.fov, toFov |-> toFov]

\* animateCameraToPreset(to, 900, {toFov}): the tween it stores.
animateCameraToPreset(to, toFov) ==
  [t0 |-> now, dur |-> CameraDur,
   fromAz |-> cam.az, dAz |-> shortestAngleDelta(cam.az, to.azimuth),
   fromPol |-> cam.pol, toPol |-> to.polar,
   fromDist |-> cam.dist, toDist |-> to.distance,
   lockDistanceAtEnd |-> TRUE,
   fromFov |-> cam.fov, toFov |-> toFov]

\* Its writes to the orbit controls: widened distance limits, disabled.
controlsForCameraTween(to) ==
  [controls EXCEPT !.minDistance = Min(cam.dist, to.distance),
                   !.maxDistance = Max(cam.dist, to.distance),
                   !.enabled = FALSE]

defaultPose ==
  [azimuth |-> defaultPoseAzimuth, polar |-> defaultPosePolar,
   distance |-> defaultPoseDistance]

(* ----------------------------- pose solver ---------------------------- *)

CubeIndex(c) == CHOOSE i \in 1..Len(cubeNames) : cubeNames[i] = c

\* Scene geometry: the spherical direction of a face seen from the look-at
\* point, and whether the face sits on the look-at point (the middle block).
FaceTheta(f) == ((CubeIndex(f.cube) * 1900 + f.idx * 2600) % TAU) - PI
FacePhi(f) == (CubeIndex(f.cube) * 700 + f.idx * 900) % PI
FaceAtTarget(f) == f.cube = "mid_block_5"
\* Second character of the face mesh's name.
FaceNameSecond(f) == <<"1", "b", "t", "2", "3", "4">>[((f.idx - 1) % 6) + 1]

getCameraPoseForFace(f) ==
  LET second == FaceNameSecond(f)
      alpha == CASE second = "1" -> -1164
                 [] second = "2" -> -2856
                 [] second = "3" -> 1963
                 [] second = "4" -> 449
                 [] second = "b" -> 4512
                 [] OTHER -> 5012
      beta == CASE second = "1" -> 1563
                [] second = "2" -> 1510
                [] second = "3" -> 1535
                [] second = "4" -> 1564
                [] second = "b" -> PI - 500
                [] OTHER -> 300
  IN  [azimuth |-> normalizeAngleMinusPiToPi((PI \div 2) - alpha + presetYawOffset),
       polar |-> beta + presetPolarOffset,
       distance |-> levaCameraDistance]

getCameraPoseForMesh(mesh, distance) ==
  IF FaceAtTarget(mesh)
    THEN getCameraPoseForFace(mesh)
    ELSE [azimuth |-> normalizeAngleMinusPiToPi(FaceTheta(mesh) + presetYawOffset),
          polar |-> clamp(FacePhi(mesh) + presetPolarOffset, PoseMinPolar, PoseMaxPolar),
          distance |-> distance]


(* ------------------------- selection machine -------------------------- *)

findCubeName(obj) == IF obj.cube \in cubesByName THEN obj.cube ELSE NoCube

\* A faulty body test: no mesh counts as structural.
isBodyMeshNever(clicked) == FALSE

\* clicked.material is one of bodyMaterialUUIDs
isBodyMesh(clicked) == clicked \in BodyMeshes

\* A faulty echo guard: a tap exactly 500 ms after the selection still counts
\* as an echo.
withinDebounceInclusive == now - lastSelectionAt <= DebounceMs

\* Within 500 ms of the last selection (the echo guard of a same-face tap).
withinDebounce == now - lastSelectionAt < DebounceMs

focusPanelForFace(face) ==
  IF panelState.primary = NoFace THEN [primary |-> face, secondary |-> NoFace]
  ELSE IF panelState.primary = face THEN panelState
  ELSE [primary |-> face, secondary |-> panelState.primary]

\* A faulty selection: the glow of the other faces is left on.
glowOnlyKeepsOthers(clicked) ==
  [f \in AllFaces |-> f = clicked \/ glow[f]]

\* Glow after the setFaceGlow / removeFaceGlow calls of a selection.
glowOnly(clicked) ==
  [f \in AllFaces |-> IF f \in allFaceMeshes \cup {clicked} THEN f = clicked ELSE glow[f]]

\* A faulty reset: the selected block and the time of the last selection are
\* left as they are.
returnToDefaultKeepsSelected ==
  /\ animCamera' = animateCameraToPreset(defaultPose, cameraFov)
  /\ controls' = controlsForCameraTween(defaultPose)
  /\ cameraAnimLock' = TRUE
  /\ animScale' = resetAllCubesScale(animScale)
  /\ animOpacity' = resetAllCubesOpacity(animOpacity)
  /\ glow' = resetAllCubesGlow
  /\ panelState' = [primary |-> NoFace, secondary |-> NoFace]
  /\ currentlyExpandedCubeName' = NoCube
  /\ currentlyClickedFace' = NoFace
  /\ UNCHANGED <<selectedCubeNameRef, lastSelectionAt>>
  /\ UNCHANGED <<ready, now, animCenter, opacity, scale, center, cam,
                 levaCameraDistance, notified>>

\* returnToDefault(): camera to the default pose at the base field of view,
\* resetAllCubes(true), selection cleared.
returnToDefault ==
  /\ animCamera' = animateCameraToPreset(defaultPose, cameraFov)
  /\ controls' = controlsForCameraTween(defaultPose)
  /\ cameraAnimLock' = TRUE
  /\ animScale' = resetAllCubesScale(animScale)
  /\ animOpacity' = resetAllCubesOpacity(animOpacity)
  /\ glow' = resetAllCubesGlow
  /\ panelState' = [primary |-> NoFace, secondary |-> NoFace]
  /\ currentlyExpandedCubeName' = NoCube
  /\ currentlyClickedFace' = NoFace
  /\ selectedCubeNameRef' = NoCube
  /\ lastSelectionAt' = -1
  /\ UNCHANGED <<ready, now, animCenter, opacity, scale, center, cam,
                 levaCameraDistance, notified>>

\* Faulty scale targets: the other blocks are left at their neutral size.
selectScalesNoDim(reg, cubeName) ==
  ScaleEach(reg,
            [c \in AllCubes |-> IF c = cubeName THEN SELECTED_CUBE_SCALE ELSE NeutralScale],
            [c \in AllCubes |-> IF c = cubeName THEN SELECTED_CUBE_BOUNCE ELSE ResetScaleBounce])

\* The scale targets of a selection: the tapped block expands, the rest dim.
selectScales(reg, cubeName) ==
  ScaleEach(reg,
            [c \in AllCubes |-> IF c = cubeName THEN SELECTED_CUBE_SCALE ELSE DIMMED_CUBE_SCALE],
            [c \in AllCubes |-> IF c = cubeName THEN SELECTED_CUBE_BOUNCE ELSE DIMMED_CUBE_BOUNCE])

\* Lines 1273-1293: same block, another face.
faceSwitchScales(reg, cubeName) == selectScales(reg, cubeName)

\* A faulty face switch: the dimming loop skips the face that was selected,
\* which stays on its way to 0.2.
faceSwitchOpacityKeepsOld(reg, old, clicked) ==
  OpacityEach(
    animateOpacity(animateOpacity(reg, old, FaceSwitchOldOpacity), clicked, FullOpacity),
    {clicked, old},
    [f \in AllFaces |-> DIMMED_FACE_OPACITY])

faceSwitchOpacity(reg, old, clicked) ==
  OpacityEach(
    animateOpacity(animateOpacity(reg, old, FaceSwitchOldOpacity), clicked, FullOpacity),
    {clicked},
    [f \in AllFaces |-> DIMMED_FACE_OPACITY])

blockSwitchOpacity(reg, clicked) ==
  OpacityEach(reg, {},
              [f \in AllFaces |-> IF f = clicked THEN FullOpacity ELSE DIMMED_FACE_OPACITY])

\* A faulty branch order: the echo guard is tested before the home reset.
selectionPathDebounceFirst(clicked, allowHomeReset) ==
  LET cubeName == findCubeName(clicked)
      hasActiveSelection == selectedCubeNameRef # NoCube
      isSameCube == hasActiveSelection /\ selectedCubeNameRef = cubeName
      isSameFace == isSameCube /\ currentlyClickedFace = clicked
  IN  IF clicked = NoFace THEN "noMesh"
      ELSE IF cubeName = NoCube THEN "noCube"
      ELSE IF isBodyMesh(clicked) THEN "body"
      ELSE IF isSameFace /\ withinDebounce THEN "debounced"
      ELSE IF allowHomeReset /\ cubeName = HomeCube /\ hasActiveSelection THEN "homeReset"
      ELSE IF isSameFace THEN "toggleReset"
      ELSE IF isSameCube /\ currentlyClickedFace # NoFace THEN "faceSwitch"
      ELSE "blockSwitch"

\* A faulty home rule: the home block resets whether or not a selection is
\* active.
selectionPathHomeAlways(clicked, allowHomeReset) ==
  LET cubeName == findCubeName(clicked)
      hasActiveSelection == selectedCubeNameRef # NoCube
      isSameCube == hasActiveSelection /\ selectedCubeNameRef = cubeName
      isSameFace == isSameCube /\ currentlyClickedFace = clicked
  IN  IF clicked = NoFace THEN "noMesh"
      ELSE IF cubeName = NoCube THEN "noCube"
      ELSE IF isBodyMesh(clicked) THEN "body"
      ELSE IF allowHomeReset /\ cubeName = HomeCube THEN "homeReset"
      ELSE IF isSameFace /\ withinDebounce THEN "debounced"
      ELSE IF isSameFace THEN "toggleReset"
      ELSE IF isSameCube /\ currentlyClickedFace # NoFace THEN "faceSwitch"
      ELSE "blockSwitch"

\* Which branch of applyFaceSelection a call takes.
selectionPath(clicked, allowHomeReset) ==
  LET cubeName == findCubeName(clicked)
      hasActiveSelection == selectedCubeNameRef # NoCube
      isSameCube == hasActiveSelection /\ selectedCubeNameRef = cubeName
      isSameFace == isSameCube /\ currentlyClickedFace = clicked
  IN  IF clicked = NoFace THEN "noMesh"
      ELSE IF cubeName = NoCube THEN "noCube"
      ELSE IF isBodyMesh(clicked) THEN "body"
      ELSE IF allowHomeReset /\ cubeName = HomeCube /\ hasActiveSelection THEN "homeReset"
      ELSE IF isSameFace /\ withinDebounce THEN "debounced"
      ELSE IF isSameFace THEN "toggleReset"
      ELSE IF isSameCube /\ currentlyClickedFace # NoFace THEN "faceSwitch"
      ELSE "blockSwitch"

desiredDistance(distanceOverride) ==
  IF distanceOverride # NoOverride THEN distanceOverride ELSE babylonClickDistance

\* applyFaceSelection(clicked, {allowHomeReset, distanceOverride})
SelectFace(clicked, allowHomeReset, distanceOverride) ==
  LET path == selectionPath(clicked, allowHomeReset)
      cubeName == findCubeName(clicked)
      camPreset == getCameraPoseForMesh(clicked, desiredDistance(distanceOverride))
  IN
  /\ lastOp' = Op("select", clicked, allowHomeReset, distanceOverride, path)
  /\ CASE path \in {"noMesh", "noCube", "body", "debounced"} ->
            UNCHANGED <<ready, now, animVars, sceneVars, selVars, ctlVars, panelState>>
       [] path \in {"homeReset", "toggleReset"} ->
            returnToDefault
       [] path = "faceSwitch" ->
            /\ animCamera' = animateCameraToPreset(camPreset, CLICK_INTERACTION_FOV)
            /\ controls' = controlsForCameraTween(camPreset)
            /\ cameraAnimLock' = TRUE
            /\ animOpacity' = faceSwitchOpacity(animOpacity, currentlyClickedFace, clicked)
            /\ glow' = glowOnly(clicked)
            /\ selectedCubeNameRef' = cubeName
            /\ lastSelectionAt' = now
            /\ currentlyClickedFace' = clicked
            /\ animScale' = faceSwitchScales(animScale, cubeName)
            /\ panelState' = focusPanelForFace(clicked)
            /\ UNCHANGED <<ready, now, animCenter, opacity, scale, center, cam,
                           levaCameraDistance, notified, currentlyExpandedCubeName>>
       [] path = "blockSwitch" ->
            /\ animCamera' = animateCameraToPreset(camPreset, CLICK_INTERACTION_FOV)
            /\ controls' = controlsForCameraTween(camPreset)
            /\ cameraAnimLock' = TRUE
            /\ animScale' = selectScales(animScale, cubeName)
            /\ animOpacity' = blockSwitchOpacity(animOpacity, clicked)
            /\ glow' = glowOnly(clicked)
            /\ currentlyExpandedCubeName' = cubeName
            /\ currentlyClickedFace' = clicked
            /\ selectedCubeNameRef' = cubeName
            /\ lastSelectionAt' = now
            /\ panelState' = focusPanelForFace(clicked)
            /\ UNCHANGED <<ready, now, animCenter, opacity, scale, center, cam,
                           levaCameraDistance, notified>>

\* resetToDefault(): returnToDefault called from outside the selection
\* machine (panel close, inactivity timeout).
ResetToDefault ==
  /\ lastOp' = Op("reset", NoFace, FALSE, NoOverride, "reset")
  /\ returnToDefault

(* -------------------------------- intro ------------------------------- *)

\* playIntroNow(): every face snaps to opacity 0 and fades in; the Center
\* object is moved to the side and slides / spins in.
playIntroNow ==
  /\ opacity' = [f \in AllFaces |-> IF f \in allFaceMeshes' THEN 0 ELSE opacity[f]]
  /\ animOpacity' =
       [f \in AllFaces |->
          IF f \in allFaceMeshes'
            THEN [from |-> 0, to |-> FullOpacity, t0 |-> now, dur |-> introFaceFadeMs]
            ELSE animOpacity[f]]
  /\ center' = [x |-> CenterRestX + CenterSlideOffset, rotY |-> CenterRestRotY]
  /\ animCenter' =
       [fromX |-> CenterRestX + CenterSlideOffset, toX |-> CenterRestX,
        fromRotY |-> CenterRestRotY,
        toRotY |-> CenterRestRotY + ((introSpinTurnsTenths * TAU) \div 10),
        amplitude |-> introBackEase, t0 |-> now, dur |-> introCenterMs]
  /\ UNCHANGED <<now, glow, scale, cam, animScale, animCamera,
                 selVars, ctlVars, panelState>>

\* onModelReady(root): build the lookup tables, then play the intro.
ModelReady ==
  /\ ~ready
  /\ ready' = TRUE
  /\ lastOp' = Op("ready", NoFace, FALSE, NoOverride, "intro")
  /\ playIntroNow

\* The replayIntro button.
ReplayIntro ==
  /\ ready
  /\ ready' = ready
  /\ lastOp' = Op("replayIntro", NoFace, FALSE, NoOverride, "intro")
  /\ playIntroNow


(* ------------------------------ Animator ------------------------------ *)

\* Value an opacity tween writes at time t.
sampleOpacity(tw, t) == Lerp(tw.from, tw.to, easeInOutCubic(Fraction(t, tw)))

\* Value a scale tween writes at time t: two eased segments around midT.
sampleScale(tw, t) ==
  LET f == Fraction(t, tw)
  IN  IF f < MidT
        THEN Lerp(tw.from, tw.bounce, easeInOutCubic((f * 1000) \div MidT))
        ELSE Lerp(tw.bounce, tw.to, easeInOutCubic(((f - MidT) * 1000) \div (1000 - MidT)))

\* A faulty deletion: the tween goes once it is nine tenths through.
retireEarly(tw, t) == IF Fraction(t, tw) >= 900 THEN NoTween ELSE tw

\* The tween is deleted in the frame that samples it at t >= 1.
retire(tw, t) == IF Fraction(t, tw) >= 1000 THEN NoTween ELSE tw

\* controls.getAzimuthalAngle(): the angle of the camera offset, in (-PI, PI].
readAzimuth(az) ==
  LET n == normalizeAngleMinusPiToPi(az) IN IF n = -PI THEN PI ELSE n

\* Pose a camera tween writes at time t (before the controls' limits).
sampleCamera(tw, t) ==
  LET f == Fraction(t, tw)
      e == easeInOutCubic(f)
      eDist == easeInOutCubic(Min(1000, (f * DollyLead) \div 100))
  IN  [az |-> tw.fromAz + ((tw.dAz * e) \div 1000),
       pol |-> Lerp(tw.fromPol, tw.toPol, e),
       dist |-> Lerp(tw.fromDist, tw.toDist, eDist),
       fov |-> Lerp(tw.fromFov, tw.toFov, eDist)]

\* controls.update(): the pose read back through the controls' limits.
throughControls(pose, c) ==
  [az |-> readAzimuth(pose.az),
   pol |-> clamp(pose.pol, c.minPolar, c.maxPolar),
   dist |-> clamp(pose.dist, c.minDistance, c.maxDistance),
   fov |-> pose.fov]

\* The controls after a camera tween ends at distance dist: distance locked
\* (lockDistanceAtEnd), enabled again; and, once onCameraAnimEnd has changed
\* values.cameraDistance, the BabylonConstraints effect has run.
controlsAtCameraEnd(tw, dist) ==
  LET locked == IF tw.lockDistanceAtEnd
                  THEN [controls EXCEPT !.minDistance = dist, !.maxDistance = dist,
                                        !.enabled = TRUE]
                  ELSE [controls EXCEPT !.enabled = TRUE]
  IN  IF dist # levaCameraDistance
        THEN [locked EXCEPT !.minDistance = dist, !.maxDistance = dist,
                            !.minPolar = BabylonMinPolar, !.maxPolar = BabylonMaxPolar]
        ELSE locked

\* A faulty completion: the tween leaves the slot without the notification.
FrameCameraSilent ==
  IF animCamera = NoTween
    THEN UNCHANGED <<animCamera, cam, controls, levaCameraDistance, cameraAnimLock, notified>>
    ELSE
      LET tw == animCamera
          pose == sampleCamera(tw, now')
          done == Fraction(now', tw) >= 1000
      IN  IF done
            THEN /\ animCamera' = NoTween
                 /\ controls' = controlsAtCameraEnd(tw, pose.dist)
                 /\ cam' = throughControls(pose, controls')
                 /\ cameraAnimLock' = FALSE
                 /\ levaCameraDistance' = pose.dist
                 /\ UNCHANGED notified
            ELSE /\ cam' = throughControls(pose, controls)
                 /\ UNCHANGED <<animCamera, controls, levaCameraDistance,
                                cameraAnimLock, notified>>

FrameCamera ==
  IF animCamera = NoTween
    THEN UNCHANGED <<animCamera, cam, controls, levaCameraDistance, cameraAnimLock, notified>>
    ELSE
      LET tw == animCamera
          pose == sampleCamera(tw, now')
          done == Fraction(now', tw) >= 1000
      IN  IF done
            THEN /\ animCamera' = NoTween
                 /\ controls' = controlsAtCameraEnd(tw, pose.dist)
                 /\ cam' = throughControls(pose, controls')
                 /\ cameraAnimLock' = FALSE
                 /\ notified' = [azimuth |-> pose.az, polar |-> pose.pol,
                                 distance |-> pose.dist, at |-> now']
                 /\ levaCameraDistance' = pose.dist
            ELSE /\ cam' = throughControls(pose, controls)
                 /\ UNCHANGED <<animCamera, controls, levaCameraDistance,
                                cameraAnimLock, notified>>

FrameCenter ==
  IF animCenter = NoTween
    THEN UNCHANGED <<animCenter, center>>
    ELSE
      LET tw == animCenter
          f == Fraction(now', tw)
      IN  /\ center' = [x |-> Lerp(tw.fromX, tw.toX, easeOutBack(f, tw.amplitude)),
                        rotY |-> Lerp(tw.fromRotY, tw.toRotY, easeOutCubic(f))]
          /\ animCenter' = retire(tw, now')

\* The useFrame callback of Animator, run at time now': opacity, scale, intro
\* slide, camera, in that order.
Animator ==
  /\ opacity' = [f \in AllFaces |->
                   IF animOpacity[f] = NoTween THEN opacity[f]
                   ELSE sampleOpacity(animOpacity[f], now')]
  /\ animOpacity' = [f \in AllFaces |->
                       IF animOpacity[f] = NoTween THEN NoTween
                       ELSE retire(animOpacity[f], now')]
  /\ scale' = [c \in AllCubes |->
                 IF animScale[c] = NoTween THEN scale[c]
                 ELSE sampleScale(animScale[c], now')]
  /\ animScale' = [c \in AllCubes |->
                     IF animScale[c] = NoTween THEN NoTween
                     ELSE retire(animScale[c], now')]
  /\ FrameCenter
  /\ FrameCamera
  /\ UNCHANGED <<ready, glow, selVars, panelState>>

(* -------------------------------- clock ------------------------------- *)

\* Time from one rendered frame to the next.
FrameSteps == {125, 500}

\* The next frame, dt ms after the last one: performance.now() has advanced
\* and the Animator runs.
Frame(dt) ==
  /\ now + dt <= MaxNow
  /\ now' = now + dt
  /\ Animator
  /\ UNCHANGED lastOp

\* Frame spacing of the runs that follow camera tweens to their end.
LongFrameSteps == {500}

LongFrame(dt) ==
  /\ now + dt <= MaxLongNow
  /\ now' = now + dt
  /\ Animator
  /\ UNCHANGED lastOp

(* ---------------------------- specification --------------------------- *)

\* A call from outside, counted against MaxCalls.
Call(A) ==
  /\ calls < MaxCalls
  /\ calls' = calls + 1
  /\ A
  /\ UNCHANGED auxVars

\* The options a caller passes: the pointer handler's ({allowHomeReset:
\* true}), a script's (with its click distance as distanceOverride), and a
\* call with the home reset switched off.
CallOptions ==
  {[allowHomeReset |-> TRUE, distanceOverride |-> NoOverride],
   [allowHomeReset |-> TRUE, distanceOverride |-> 15000],
   [allowHomeReset |-> FALSE, distanceOverride |-> NoOverride]}

Next ==
  \/ ModelReady /\ UNCHANGED <<calls, auxVars>>
  \/ Call(ReplayIntro)
  \/ \E m \in Meshes, o \in CallOptions :
       Call(SelectFace(m, o.allowHomeReset, o.distanceOverride))
  \/ Call(ResetToDefault)
  \/ \E dt \in FrameSteps : Frame(dt) /\ UNCHANGED <<calls, auxVars>>

Spec == Init /\ [][Next]_vars

TypeOK ==
  /\ ready \in BOOLEAN
  /\ now \in 0..MaxNow
  /\ \A f \in AllFaces : opacity[f] \in 0..FullOpacity
  /\ selectedCubeNameRef \in AllCubes \cup {NoCube}
  /\ currentlyClickedFace \in AllFaces \cup {NoFace}


(* ------------------------- vocabulary of claims ----------------------- *)

\* This step is a call of applyFaceSelection; its input is in lastOp'.
SelectStep == calls' = calls + 1 /\ lastOp'.op = "select"

\* This step is a call of applyFaceSelection on a selectable face of the
\* loaded scene.
SelectFaceStep == SelectStep /\ ready /\ lastOp'.mesh \in AllFaces

\* The call is the home reset of the transition table: the home block is
\* tapped with allowHomeReset while a selection is active.
HomeResetCase ==
  /\ lastOp'.allowHomeReset
  /\ lastOp'.mesh.cube = HomeCube
  /\ selectedCubeNameRef # NoCube

\* The Reset transition has just happened: selection cleared, every block
\* driven to scale 1.0, every face to full opacity without glow, the camera
\* to the default pose at the base field of view.
ResetDone ==
  /\ selectedCubeNameRef' = NoCube
  /\ currentlyExpandedCubeName' = NoCube
  /\ currentlyClickedFace' = NoFace
  /\ lastSelectionAt' = -1
  /\ \A c \in AllCubes : animScale'[c] # NoTween /\ animScale'[c].to = NeutralScale
  /\ \A f \in AllFaces :
       animOpacity'[f] # NoTween /\ animOpacity'[f].to = FullOpacity /\ ~glow'[f]
  /\ animCamera' # NoTween
  /\ animCamera'.t0 = now
  /\ normalizeAngle0ToTau(animCamera'.fromAz + animCamera'.dAz)
       = normalizeAngle0ToTau(defaultPoseAzimuth)
  /\ animCamera'.toPol = defaultPosePolar
  /\ animCamera'.toDist = defaultPoseDistance
  /\ animCamera'.toFov = cameraFov

\* A camera tween toward the solved pose of face f at the zoomed-in field of
\* view has just been issued.
CameraIssuedToward(f, d) ==
  LET pose == getCameraPoseForMesh(f, desiredDistance(d))
  IN  /\ animCamera' # NoTween
      /\ animCamera'.t0 = now
      /\ normalizeAngle0ToTau(animCamera'.fromAz + animCamera'.dAz)
           = normalizeAngle0ToTau(pose.azimuth)
      /\ animCamera'.toPol = pose.polar
      /\ animCamera'.toDist = pose.distance
      /\ animCamera'.toFov = CLICK_INTERACTION_FOV

\* The Block-Switch transition to face f has just happened.
BlockSwitchDone(f) ==
  /\ selectedCubeNameRef' = f.cube
  /\ currentlyExpandedCubeName' = f.cube
  /\ currentlyClickedFace' = f
  /\ lastSelectionAt' = now
  /\ \A c \in AllCubes :
       /\ animScale'[c] # NoTween
       /\ animScale'[c].to = IF c = f.cube THEN SELECTED_CUBE_SCALE ELSE DIMMED_CUBE_SCALE
       /\ animScale'[c].bounce =
            IF c = f.cube THEN SELECTED_CUBE_BOUNCE ELSE DIMMED_CUBE_BOUNCE
  /\ \A g \in AllFaces :
       /\ animOpacity'[g] # NoTween
       /\ animOpacity'[g].to = IF g = f THEN FullOpacity ELSE DIMMED_FACE_OPACITY

\* Everything the selection machine and the tween producers write.
machineVars == <<selVars, animVars, glow, panelState, controls, cameraAnimLock>>

(* -------------------------------- claims ------------------------------ *)

\* C1 (as claimed): starting in Default, the first selectFace(X) on a
\* selectable face X selects it, Selected(block(X), X), and a second
\* selectFace(X) strictly less than 500 ms later is ignored: Selection State,
\* the tween registries and the last-selection timestamp stay as they are.
C1_SecondCallIgnored ==
  [][ /\ (SelectFaceStep /\ selectedCubeNameRef = NoCube)
          => /\ selectedCubeNameRef' = lastOp'.mesh.cube
             /\ currentlyClickedFace' = lastOp'.mesh
      /\ ( /\ SelectFaceStep
           /\ lastOp.op = "select" /\ lastOp.mesh = lastOp'.mesh
           /\ lastOp.prevCube = NoCube
           /\ selectedCubeNameRef = lastOp.mesh.cube
           /\ currentlyClickedFace = lastOp.mesh
           /\ now - lastSelectionAt < DebounceMs )
          => UNCHANGED machineVars
    ]_vars

\* C2 (as claimed): from Default or from a selection on a different block,
\* selectFace(A) on a selectable face A performs the Block-Switch: the state
\* becomes Selected(block(A), A), block(A) is driven to 1.28 via 1.38 and
\* every other block to 0.82 via 0.76, A to opacity 1.0 and every other face
\* to 0.15, and the timestamp is recorded.
C2_BlockSwitchAlways ==
  [][ (SelectFaceStep /\ selectedCubeNameRef # lastOp'.mesh.cube)
        => BlockSwitchDone(lastOp'.mesh) ]_vars

\* C2 (amended): the same, except when A is on the home block while a
\* selection is active and allowHomeReset is set (that call is the home
\* reset).
C2_BlockSwitch ==
  [][ (SelectFaceStep /\ selectedCubeNameRef # lastOp'.mesh.cube /\ ~HomeResetCase)
        => BlockSwitchDone(lastOp'.mesh) ]_vars

\* C2 witness: a Block-Switch made while another block was selected.
C2_Witness ==
  /\ lastOp.op = "select" /\ lastOp.path = "blockSwitch"
  /\ lastOp.prevCube \notin {NoCube, lastOp.mesh.cube}
  /\ selectedCubeNameRef = lastOp.mesh.cube
  /\ currentlyClickedFace = lastOp.mesh
  /\ animScale[lastOp.prevCube] # NoTween
  /\ animScale[lastOp.prevCube].to = DIMMED_CUBE_SCALE

\* C3 (as claimed): a Face-Switch-Within-Block (from Selected(1, A), a tap on
\* another face B of block 1 that is not the home reset) issues no scale
\* tween: the scale registry and every block's scale stay as they are.
C3_NoScaleTweenOnFaceSwitch ==
  [][ ( /\ SelectFaceStep
        /\ selectedCubeNameRef = lastOp'.mesh.cube
        /\ currentlyClickedFace \in AllFaces
        /\ currentlyClickedFace.cube = lastOp'.mesh.cube
        /\ currentlyClickedFace # lastOp'.mesh
        /\ ~HomeResetCase )
        => UNCHANGED <<animScale, scale>> ]_vars

\* The Face-Switch-Within-Block case: Selected(1, A), and the tap is on
\* another face B of block 1.
FaceSwitchCase ==
  /\ selectedCubeNameRef = lastOp'.mesh.cube
  /\ currentlyClickedFace \in AllFaces
  /\ currentlyClickedFace.cube = lastOp'.mesh.cube
  /\ currentlyClickedFace # lastOp'.mesh

\* After a face switch from A to B: Selected(1, B); A is headed to 0.15 with
\* its glow cleared, B to 1.0 with glow; a camera tween toward B's solved pose
\* at the zoomed-in field of view has been issued.
FaceSwitchDone(A, B, d) ==
  /\ selectedCubeNameRef' = B.cube
  /\ currentlyClickedFace' = B
  /\ animOpacity'[A] # NoTween /\ animOpacity'[A].to = DIMMED_FACE_OPACITY
  /\ ~glow'[A]
  /\ animOpacity'[B] # NoTween /\ animOpacity'[B].to = FullOpacity
  /\ glow'[B]
  /\ CameraIssuedToward(B, d)

\* C4 (as claimed): from Selected(1, A), selectFace(B) with B # A on block 1
\* gives Selected(1, B), A's opacity target 0.15 with its glow cleared, B's
\* target 1.0 with glow set, and a camera tween toward B's solved pose at the
\* zoomed-in field of view.
C4_FaceSwitchAlways ==
  [][ (SelectFaceStep /\ FaceSwitchCase)
        => FaceSwitchDone(currentlyClickedFace, lastOp'.mesh, lastOp'.distanceOverride)
    ]_vars

\* C4 (amended): the same, except when block 1 is the home block and the call
\* has allowHomeReset set (that call is the home reset).
C4_FaceSwitch ==
  [][ (SelectFaceStep /\ FaceSwitchCase /\ ~HomeResetCase)
        => FaceSwitchDone(currentlyClickedFace, lastOp'.mesh, lastOp'.distanceOverride)
    ]_vars

\* C4 witness: a face switch has happened and its opacity tweens are in
\* flight.
C4_Witness ==
  /\ lastOp.op = "select" /\ lastOp.path = "faceSwitch"
  /\ lastOp.prevFace \in AllFaces /\ lastOp.prevFace # lastOp.mesh
  /\ currentlyClickedFace = lastOp.mesh
  /\ animOpacity[lastOp.prevFace] # NoTween
  /\ animOpacity[lastOp.prevFace].to = DIMMED_FACE_OPACITY
  /\ glow[lastOp.mesh] /\ ~glow[lastOp.prevFace]

\* C5: from Selected(1, A), selectFace(A) at least 500 ms after the last
\* selection performs the Reset: the state becomes Default, every block is
\* driven to scale 1.0, every face to opacity 1.0 without glow, and the camera
\* to the default pose at the base field of view.
C5_ReselectResets ==
  [][ ( /\ SelectFaceStep
        /\ selectedCubeNameRef = lastOp'.mesh.cube
        /\ currentlyClickedFace = lastOp'.mesh
        /\ now - lastSelectionAt >= DebounceMs )
        => ResetDone ]_vars

\* C5 witness: the selected face was tapped again exactly 500 ms after its
\* selection, and the machine is back in Default.
C5_Witness ==
  /\ lastOp.op = "select" /\ lastOp.path = "toggleReset"
  /\ lastOp.prevFace = lastOp.mesh
  /\ now = DebounceMs
  /\ selectedCubeNameRef = NoCube
  /\ \A c \in AllCubes : animScale[c] # NoTween /\ animScale[c].to = NeutralScale

C8_BodyTapIgnored ==
  [][ (SelectStep /\ lastOp'.mesh \in BodyMeshes)
        => UNCHANGED <<machineVars, sceneVars, levaCameraDistance, notified>> ]_vars

\* C8 witness: a body mesh of the selected block was tapped while a selection
\* was active, and the selection is still there.
C8_Witness ==
  /\ ready
  /\ lastOp.op = "select" /\ lastOp.path = "body"
  /\ lastOp.mesh \in BodyMeshes
  /\ lastOp.prevCube = lastOp.mesh.cube
  /\ selectedCubeNameRef = lastOp.prevCube
  /\ currentlyClickedFace = lastOp.prevFace

\* This step plays the intro (onModelReady or the replayIntro button).
IntroStep == (~ready /\ ready') \/ (calls' = calls + 1 /\ lastOp'.op = "replayIntro")

\* The opacity tween of face f is replaced in this step.
OpacityReplaced(f) ==
  animOpacity[f] # NoTween /\ animOpacity'[f] # NoTween /\ animOpacity'[f] # animOpacity[f]

\* The scale tween of block c is replaced in this step.
ScaleReplaced(c) ==
  animScale[c] # NoTween /\ animScale'[c] # NoTween /\ animScale'[c] # animScale[c]

\* The replacing tween of face f starts at the value on screen, which is the
\* old tween's interpolated value, and the value does not move.
OpacityContinuous(f) ==
  /\ opacity[f] = sampleOpacity(animOpacity[f], now)
  /\ animOpacity'[f].from = opacity[f]
  /\ animOpacity'[f].t0 = now
  /\ opacity'[f] = opacity[f]

ScaleContinuous(c) ==
  /\ scale[c] = sampleScale(animScale[c], now)
  /\ animScale'[c].from = scale[c]
  /\ animScale'[c].t0 = now
  /\ scale'[c] = scale[c]

C10_CameraTweenStartsAtCamera ==
  [][ (animCamera' # NoTween /\ animCamera' # animCamera)
        => /\ animCamera'.t0 = now
           /\ animCamera'.fromAz = cam.az
           /\ animCamera'.fromPol = cam.pol
           /\ animCamera'.fromDist = cam.dist
           /\ animCamera'.fromFov = cam.fov
           /\ cam' = cam
           /\ animCamera # NoTween
                => cam = throughControls(sampleCamera(animCamera, now), controls)
    ]_vars

\* C10 witness: a camera tween that began part-way through another one, at a
\* field of view between the base and the zoomed-in one.
C10_Witness ==
  /\ animCamera # NoTween
  /\ animCamera.t0 > 0
  /\ animCamera.fromFov \notin {cameraFov, CLICK_INTERACTION_FOV}
  /\ animCamera.fromFov = cam.fov

(* ------------------- camera tweens followed to the end ----------------- *)

\* The application with taps on faces and resets only, on a clock long enough
\* for a 900 ms camera tween to be replaced and still complete.
LongNext ==
  \/ ModelReady /\ UNCHANGED <<calls, auxVars>>
  \/ \E m \in AllFaces, o \in CallOptions :
       Call(SelectFace(m, o.allowHomeReset, o.distanceOverride))
  \/ Call(ResetToDefault)
  \/ \E dt \in LongFrameSteps : LongFrame(dt) /\ UNCHANGED <<calls, auxVars>>

LongSpec == Init /\ [][LongNext]_vars

\* The camera tween in the slot completes in this step: a frame samples it at
\* t >= 1.
CameraCompletes ==
  now' # now /\ animCamera # NoTween /\ Fraction(now', animCamera) >= 1000

\* C17: a camera tween that reaches t = 1 notifies once, in the frame that
\* completes it, with its final azimuth, polar angle and distance (the target
\* is the fixed model centre), and leaves the slot; no other step notifies, so
\* a tween replaced before its end never does.
C17_CameraCompletionNotifies ==
  [][ /\ CameraCompletes
          => /\ notified' = [azimuth |-> animCamera.fromAz + animCamera.dAz,
                             polar |-> animCamera.toPol,
                             distance |-> animCamera.toDist,
                             at |-> now']
             /\ animCamera' = NoTween
      /\ notified' # notified => CameraCompletes
    ]_vars

\* C17 witness: a camera tween was replaced at 500 ms, and the replacement
\* alone has notified, at its own end.
C17_Witness ==
  /\ notified # NoTween
  /\ notified.at = MaxLongNow
  /\ animCamera = NoTween
  /\ lastOp.op = "select" /\ lastOp.path = "faceSwitch"
  /\ lastSelectionAt = 500

\* Where a block's scale and a face's opacity are headed: the target of the
\* tween in flight, or the value at rest.
ScaleTarget(c) == IF animScale[c] = NoTween THEN scale[c] ELSE animScale[c].to
OpacityTarget(f) == IF animOpacity[f] = NoTween THEN opacity[f] ELSE animOpacity[f].to

\* This step is a call of resetToDefault.
ResetStep == calls' = calls + 1 /\ lastOp'.op = "reset"

\* C18: resetToDefault, in any state, leaves Selection State Default with the
\* timestamp cleared, every block headed to scale 1.0, every face headed to
\* opacity 1.0 and no face glowing; a second call right after the first
\* changes neither Selection State nor any tween target.
C18_ResetTotalIdempotent ==
  [][ /\ ResetStep
          => /\ selectedCubeNameRef' = NoCube
             /\ currentlyClickedFace' = NoFace
             /\ currentlyExpandedCubeName' = NoCube
             /\ lastSelectionAt' = -1
             /\ \A c \in AllCubes : ScaleTarget(c)' = NeutralScale
             /\ \A f \in AllFaces : OpacityTarget(f)' = FullOpacity /\ ~glow'[f]
             /\ animCamera' # NoTween
             /\ animCamera'.toPol = defaultPosePolar
             /\ animCamera'.toDist = defaultPoseDistance
             /\ animCamera'.toFov = cameraFov
             /\ normalizeAngle0ToTau(animCamera'.fromAz + animCamera'.dAz)
                  = normalizeAngle0ToTau(defaultPoseAzimuth)
      /\ (ResetStep /\ lastOp.op = "reset")
          => /\ UNCHANGED <<selVars, glow, panelState>>
             /\ \A c \in AllCubes : ScaleTarget(c)' = ScaleTarget(c)
             /\ \A f \in AllFaces : OpacityTarget(f)' = OpacityTarget(f)
             /\ animCamera # NoTween
                  => /\ animCamera'.toPol = animCamera.toPol
                     /\ animCamera'.toDist = animCamera.toDist
                     /\ animCamera'.toFov = animCamera.toFov
                     /\ normalizeAngle0ToTau(animCamera'.fromAz + animCamera'.dAz)
                          = normalizeAngle0ToTau(animCamera.fromAz + animCamera.dAz)
    ]_vars

\* C18 witness: a reset made while a face was selected and the selection's
\* tweens were part-way.
C18_Witness ==
  /\ ready
  /\ lastOp.op = "reset"
  /\ lastOp.prevCube # NoCube
  /\ selectedCubeNameRef = NoCube
  /\ \E c \in AllCubes :
       /\ animScale[c] # NoTween
       /\ animScale[c].to = NeutralScale
       /\ animScale[c].from \notin {NeutralScale, SELECTED_CUBE_SCALE, DIMMED_CUBE_SCALE}
  /\ \A f \in AllFaces : ~glow[f]

(* --------------------------- angle functions -------------------------- *)

\* Angles on and next to every quarter turn, within MaxQuarterTurns.
Angles ==
  {k * (PI \div 2) + j : k \in (0 - MaxQuarterTurns)..MaxQuarterTurns, j \in {-1, 0, 1}}

AngleInit ==
  /\ AppInit
  /\ UiInit
  /\ probe \in [fn : {"shortestAngleDelta"}, from : Angles, to : Angles,
                done : {FALSE}, out : {0}, sweep : {0}]

\* shortestAngleDelta(from, to), and the sweep animateCameraToPreset stores for
\* a tween from the camera's azimuth to `to`.
ApplyShortestAngleDelta ==
  /\ probe.fn = "shortestAngleDelta"
  /\ ~probe.done
  /\ probe' = [probe EXCEPT
                 !.done = TRUE,
                 !.out = shortestAngleDelta(probe.from, probe.to),
                 !.sweep = animateCameraToPreset(
                             [azimuth |-> probe.to, polar |-> defaultPosePolar,
                              distance |-> defaultPoseDistance], cameraFov).dAz]
  /\ UNCHANGED <<appVars, uiVars>>

AngleNext == ApplyShortestAngleDelta

AngleSpec == AngleInit /\ [][AngleNext]_vars

\* C19: for all angles from and to, shortestAngleDelta(from, to) lies in
\* [-pi, pi] and from + delta is congruent to `to` modulo 2 pi, also when the
\* two differ by exactly pi; the sweep of a camera tween is at most half a
\* turn.
C19_ShortestAngleDelta ==
  (probe.fn = "shortestAngleDelta" /\ probe.done)
    => /\ probe.out >= -PI /\ probe.out <= PI
       /\ normalizeAngle0ToTau(probe.from + probe.out) = normalizeAngle0ToTau(probe.to)
       /\ probe.sweep >= -PI /\ probe.sweep <= PI

\* C19 witness: the two angles are exactly half a turn apart, across the
\* wrap-around, and the delta is half a turn.
C19_Witness ==
  /\ probe.fn = "shortestAngleDelta" /\ probe.done
  /\ probe.from = PI + (PI \div 2)
  /\ probe.to = 0 - (PI + (PI \div 2))
  /\ probe.out = -PI

(* ------------------ tween endpoints in rounded arithmetic -------------- *)

\* JavaScript numbers are binary floating point: the result of every
\* operation is rounded to the nearest number with a fixed count of
\* significant bits, ties to even.  Here a number is an integer count of
\* 1/FloatOne and keeps FloatBits significant bits.
FloatOne == 2 ^ 6

RECURSIVE FlRoundAt(_, _)
\* n >= 0 rounded to a multiple of q, with q doubled until FloatBits bits do.
FlRoundAt(n, q) ==
  IF n < (2 ^ FloatBits) * q
    THEN LET lo == (n \div q) * q
             r  == n - lo
         IN  IF 2 * r < q THEN lo
             ELSE IF 2 * r > q THEN lo + q
             ELSE IF (n \div q) % 2 = 0 THEN lo ELSE lo + q
    ELSE FlRoundAt(n, 2 * q)

Fl(n) == IF n < 0 THEN 0 - FlRoundAt(0 - n, 1) ELSE FlRoundAt(n, 1)

\* p / q to the nearest integer, q > 0.
RoundDiv(p, q) ==
  IF p >= 0 THEN (2 * p + q) \div (2 * q) ELSE 0 - ((2 * (0 - p) + q) \div (2 * q))

FlAdd(a, b) == Fl(a + b)
FlSub(a, b) == Fl(a - b)
FlMul(a, b) == Fl(RoundDiv(a * b, FloatOne))
FlDiv(a, b) == Fl(RoundDiv(a * FloatOne, b))
\* A decimal literal of the source, given in thousandths.
FlLit(thousandths) == Fl(RoundDiv(thousandths * FloatOne, 1000))

\* easeInOutCubic, easeOutCubic, easeOutBack as the source computes them.
FlEaseInOutCubic(t) ==
  IF 2 * t < FloatOne
    THEN FlMul(FlMul(FlMul(4 * FloatOne, t), t), t)
    ELSE LET u == FlAdd(FlMul(0 - 2 * FloatOne, t), 2 * FloatOne)
         IN  FlSub(FloatOne, FlDiv(FlMul(FlMul(u, u), u), 2 * FloatOne))

FlEaseOutCubic(t) ==
  LET u == FlSub(FloatOne, t) IN FlSub(FloatOne, FlMul(FlMul(u, u), u))

FlEaseOutBack(t, amplitude) ==
  LET c1 == FlMul(FlLit(1702), amplitude)
      c3 == FlAdd(c1, FloatOne)
      u  == FlSub(t, FloatOne)
  IN  FlAdd(FlAdd(FloatOne, FlMul(c3, FlMul(FlMul(u, u), u))), FlMul(c1, FlMul(u, u)))

\* from + (to - from) * e
FlLerp(from, to, e) == FlAdd(from, FlMul(FlSub(to, from), e))

\* What the Animator writes for each kind of tween at elapsed fraction t.
FlSampleOpacity(tw, t) == <<FlLerp(tw.from, tw.to, FlEaseInOutCubic(t))>>

FlSampleScale(tw, t) ==
  LET midT == FlLit(MidT)
  IN  IF t < midT
        THEN <<FlLerp(tw.from, tw.aux, FlEaseInOutCubic(FlDiv(t, midT)))>>
        ELSE <<FlLerp(tw.aux, tw.to,
                      FlEaseInOutCubic(FlDiv(FlSub(t, midT), FlSub(FloatOne, midT))))>>

FlSampleCenter(tw, t) ==
  <<FlLerp(tw.from, tw.to, FlEaseOutBack(t, tw.aux)),
    FlLerp(tw.from, tw.to, FlEaseOutCubic(t))>>

FlSampleCamera(tw, t) ==
  LET e == FlEaseInOutCubic(t)
      eDist == FlEaseInOutCubic(Min(FloatOne, FlMul(t, FlLit(10 * DollyLead))))
  IN  <<FlAdd(tw.from, FlMul(tw.aux, e)),
        FlLerp(tw.from, tw.to, e),
        FlLerp(tw.from, tw.to, eDist),
        FlLerp(tw.from, tw.to, eDist)>>

FlSample(tw, t) ==
  CASE tw.kind = "opacity" -> FlSampleOpacity(tw, t)
    [] tw.kind = "scale" -> FlSampleScale(tw, t)
    [] tw.kind = "center" -> FlSampleCenter(tw, t)
    [] tw.kind = "camera" -> FlSampleCamera(tw, t)

\* The numbers a tween can be given: those that rounding leaves alone.
FloatValues == {n \in 0..MaxFloat : Fl(n) = n}

\* The third number of a tween: the bounce of a scale tween, the amplitude of
\* the intro slide, the azimuth sweep of a camera tween.
FloatAux(kind) ==
  CASE kind = "opacity" -> {0}
    [] kind = "scale" -> {FlLit(SELECTED_CUBE_BOUNCE), FlLit(DIMMED_CUBE_BOUNCE),
                          FlLit(ResetScaleBounce)}
    [] kind = "center" -> {FlLit(introBackEase), FlLit(360), FlLit(500)}
    [] kind = "camera" -> {0 - FloatOne, FlLit(150), FloatOne + FlLit(150)}

FloatTweens ==
  UNION {[kind : {k}, from : FloatValues, to : FloatValues, aux : FloatAux(k)] :
           k \in {"opacity", "scale", "center", "camera"}}

FloatInit ==
  /\ AppInit
  /\ UiInit
  /\ probe \in [fn : {"sample"}, tw : FloatTweens, t : {0, FloatOne},
                done : {FALSE}, out : {<<>>}]

\* One frame of the Animator on the tween, at elapsed fraction t.
ApplySample ==
  /\ probe.fn = "sample"
  /\ ~probe.done
  /\ probe' = [probe EXCEPT !.done = TRUE, !.out = FlSample(probe.tw, probe.t)]
  /\ UNCHANGED <<appVars, uiVars>>

FloatNext == ApplySample

FloatSpec == FloatInit /\ [][FloatNext]_vars

\* The start and the end values of a tween, as many as its kind writes.
TweenStarts(tw) ==
  CASE tw.kind \in {"opacity", "scale"} -> <<tw.from>>
    [] tw.kind = "center" -> <<tw.from, tw.from>>
    [] tw.kind = "camera" -> <<tw.from, tw.from, tw.from, tw.from>>

TweenEnds(tw) ==
  CASE tw.kind \in {"opacity", "scale"} -> <<tw.to>>
    [] tw.kind = "center" -> <<tw.to, tw.to>>
    [] tw.kind = "camera" -> <<FlAdd(tw.from, tw.aux), tw.to, tw.to, tw.to>>

\* C20 (as claimed): whatever the kind of tween, the frame at t = 0 writes the
\* start value and the frame at t = 1 writes the end value, exactly.
C20_EndpointsExact ==
  (probe.fn = "sample" /\ probe.done)
    => probe.out = IF probe.t = 0 THEN TweenStarts(probe.tw) ELSE TweenEnds(probe.tw)

(* --------------------------- gesture classifier ----------------------- *)

\* Pixels, milliseconds, milliradians and thousandths of a distance unit.
CLICK_DRAG_THRESHOLD_PX == 8
TOUCH_DRAG_THRESHOLD_PX == 22
MIN_CLICK_PRESS_MS == 30
SameSpotPx == 2
DuplicateTapMs == 320
MouseAfterTouchMs == 800
OrbitSyncSuppressMs == 1100
CameraMovedAngle == 10
CameraMovedDistance == 50
InactivityMs == 30000

Abs(v) == IF v < 0 THEN 0 - v ELSE v

isGuidedRunning == isDemoRunning \/ isPanelDemoRunning

\* The pointers of the device: the mouse with its left or its right button, the
\* first finger on the screen and a second finger.
MouseLeft == [pointerType |-> "mouse", pointerId |-> 1, isPrimary |-> TRUE, button |-> 0]
MouseRight == [pointerType |-> "mouse", pointerId |-> 1, isPrimary |-> TRUE, button |-> 2]
Touch == [pointerType |-> "touch", pointerId |-> 2, isPrimary |-> TRUE, button |-> 0]
SecondTouch == [pointerType |-> "touch", pointerId |-> 3, isPrimary |-> FALSE, button |-> 0]
Pointers == {MouseLeft, MouseRight, Touch, SecondTouch}

\* clientX of an event (clientY is the same in all of them).
Positions == {0, 9, 23}

\* A press, always at position 0, and a move.
DownEvents == [pointer : Pointers, x : {0}]
MoveEvents == [pointer : {MouseLeft, Touch}, x : Positions]

\* The faces a release lands on: one of each block.
TapFaces == {f \in AllFaces : f.idx = 1}

\* A release, as the handler of mesh `object` receives it: `closest` says
\* whether that mesh is the first intersection of the event, `behind` is the
\* first face among the intersections when `object` is not a face, `delta` is
\* the event's own measure of movement.
UpEvents ==
  [pointer : Pointers, x : Positions, object : TapFaces, closest : {TRUE},
   behind : {NoFace}, delta : {0}]
  \cup [pointer : {MouseLeft}, x : {0}, object : {[cube |-> cubeNames[1], idx |-> 1]},
        closest : {FALSE}, behind : {NoFace}, delta : {0}]
  \cup [pointer : {MouseLeft}, x : {0},
        object : {[cube |-> cubeNames[1], idx |-> 0], StrayMesh},
        closest : {TRUE}, behind : {NoFace, [cube |-> cubeNames[1], idx |-> 1]},
        delta : {0}]
  \cup [pointer : {MouseLeft}, x : {0}, object : {[cube |-> cubeNames[1], idx |-> 1]},
        closest : {TRUE}, behind : {NoFace}, delta : {9}]

\* The pointer of the event goes down, moves, goes up.
heldDown(ev) ==
  IF ev.pointer.pointerId \in DOMAIN held
    THEN [held EXCEPT ![ev.pointer.pointerId] =
            [down |-> TRUE, farthest |-> 0,
             start |-> IF isGuidedRunning THEN NoPose
                       ELSE [az |-> cam.az, pol |-> cam.pol, dist |-> cam.dist]]]
    ELSE held
heldMoved(ev) ==
  IF ev.pointer.pointerId \in DOMAIN held /\ held[ev.pointer.pointerId].down
    THEN [held EXCEPT ![ev.pointer.pointerId].farthest = IF ev.x > @ THEN ev.x ELSE @]
    ELSE held
heldUp(ev) ==
  IF ev.pointer.pointerId \in DOMAIN held
    THEN [held EXCEPT ![ev.pointer.pointerId].down = FALSE,
                      ![ev.pointer.pointerId].start = NoPose]
    ELSE held

\* resetTimer(); startTimer()
\* A faulty resetTimer: the flag is lowered, the timeout is not cleared.
resetTimerKeepsTimeout == [timerRef EXCEPT !.active = FALSE]

resetTimer ==
  IF timerRef.active
    THEN [timerRef EXCEPT !.active = FALSE, !.pending = @ \ {timerRef.due}]
    ELSE timerRef
startTimer(t) ==
  IF t.active THEN t
  ELSE [active |-> TRUE, due |-> now + InactivityMs,
        pending |-> t.pending \cup {now + InactivityMs}]
\* A faulty onInteraction: guided mode is not looked at.
onInteractionWhileGuided == startTimer(resetTimer)
onInteraction == IF isGuidedRunning THEN timerRef ELSE startTimer(resetTimer)

\* onModelPointerDown
PointerDown(ev) ==
  /\ ready
  /\ IF isGuidedRunning \/ (ev.pointer.pointerType = "touch" /\ ~ev.pointer.isPrimary)
       THEN UNCHANGED pointerDownRef
       ELSE pointerDownRef' =
              [active |-> TRUE, pointerId |-> ev.pointer.pointerId, x |-> ev.x,
               downAt |-> now, maxFromStart |-> 0,
               start |-> [az |-> cam.az, pol |-> cam.pol, dist |-> cam.dist]]
  /\ held' = heldDown(ev)
  /\ UNCHANGED <<appVars, probe, lastPointerUpRef, lastResolvedTapRef, lastUp,
                 guidedVars, suppressOrbitSyncUntilRef, timerRef>>

samePointer(ev) ==
  pointerDownRef.pointerId = Null \/ pointerDownRef.pointerId = ev.pointer.pointerId

\* onModelPointerMove
PointerMove(ev) ==
  /\ ready
  /\ IF /\ pointerDownRef.active
        /\ samePointer(ev)
        /\ Abs(ev.x - pointerDownRef.x) > pointerDownRef.maxFromStart
       THEN pointerDownRef' =
              [pointerDownRef EXCEPT !.maxFromStart = Abs(ev.x - pointerDownRef.x)]
       ELSE UNCHANGED pointerDownRef
  /\ held' = heldMoved(ev)
  /\ UNCHANGED <<appVars, probe, lastPointerUpRef, lastResolvedTapRef, lastUp,
                 guidedVars, suppressOrbitSyncUntilRef, timerRef>>

\* A faulty threshold: a finger is held to the mouse's threshold.
dragThresholdMouseOnly(ev) == CLICK_DRAG_THRESHOLD_PX

dragThreshold(ev) ==
  IF ev.pointer.pointerType = "touch" THEN TOUCH_DRAG_THRESHOLD_PX
  ELSE CLICK_DRAG_THRESHOLD_PX

dragDistance(ev) == Max(Abs(ev.x - pointerDownRef.x), pointerDownRef.maxFromStart)

\* The camera has moved since the press.
cameraMoved ==
  /\ pointerDownRef.start # NoPose
  /\ \/ Abs(shortestAngleDelta(pointerDownRef.start.az, cam.az)) > CameraMovedAngle
     \/ Abs(cam.pol - pointerDownRef.start.pol) > CameraMovedAngle
     \/ Abs(cam.dist - pointerDownRef.start.dist) > CameraMovedDistance

isKnownFace(obj) == obj \in allFaceMeshes /\ findCubeName(obj) # NoCube

\* The face a release resolves to: the first known face among the event's
\* intersections, else the handler's own object if it is one.
resolvedFace(ev) ==
  IF ev.closest /\ isKnownFace(ev.object) THEN ev.object
  ELSE IF isKnownFace(ev.behind) THEN ev.behind
  ELSE IF isKnownFace(ev.object) THEN ev.object
  ELSE NoFace

\* A faulty classifier: a release is taken without a press on record.
upOutcomeNoPressCheck(ev) ==
  IF isGuidedRunning THEN "guided"
  ELSE IF cameraAnimLock THEN "locked"
  ELSE IF ev.pointer.pointerType = "touch" /\ ~ev.pointer.isPrimary THEN "nonPrimary"
  ELSE IF ev.pointer.pointerType = "mouse" /\ ev.pointer.button # 0 THEN "button"
  ELSE IF ~ev.closest THEN "notClosest"
  ELSE IF /\ lastPointerUpRef.timeStamp = now
          /\ lastPointerUpRef.pointerId = ev.pointer.pointerId THEN "sameEvent"
  ELSE IF pointerDownRef.active /\ now - pointerDownRef.downAt < MIN_CLICK_PRESS_MS
    THEN "tooShort"
  ELSE IF pointerDownRef.active /\ samePointer(ev) /\ dragDistance(ev) > dragThreshold(ev)
    THEN "dragged"
  ELSE IF pointerDownRef.active /\ cameraMoved THEN "cameraMoved"
  ELSE IF ev.delta > dragThreshold(ev) THEN "delta"
  ELSE IF allFaceMeshes = {} THEN "noMeshes"
  ELSE IF resolvedFace(ev) = NoFace THEN "noFace"
  ELSE "tap"

\* A faulty classifier: a release is taken while the camera is locked.
upOutcomeNoLockCheck(ev) ==
  LET lastTap == lastResolvedTapRef
      face == resolvedFace(ev)
  IN
  IF isGuidedRunning THEN "guided"
  ELSE IF ev.pointer.pointerType = "touch" /\ ~ev.pointer.isPrimary THEN "nonPrimary"
  ELSE IF ev.pointer.pointerType = "mouse" /\ ev.pointer.button # 0 THEN "button"
  ELSE IF ~ev.closest THEN "notClosest"
  ELSE IF /\ lastPointerUpRef.timeStamp = now
          /\ lastPointerUpRef.pointerId = ev.pointer.pointerId THEN "sameEvent"
  ELSE IF ~pointerDownRef.active THEN "noPress"
  ELSE IF now - pointerDownRef.downAt < MIN_CLICK_PRESS_MS THEN "tooShort"
  ELSE IF samePointer(ev) /\ dragDistance(ev) > dragThreshold(ev) THEN "dragged"
  ELSE IF cameraMoved THEN "cameraMoved"
  ELSE IF ev.delta > dragThreshold(ev) THEN "delta"
  ELSE IF allFaceMeshes = {} THEN "noMeshes"
  ELSE IF face = NoFace THEN "noFace"
  ELSE IF /\ lastTap.face # NoFace /\ lastTap.face = face
          /\ lastTap.x # Null /\ Abs(ev.x - lastTap.x) < SameSpotPx
          /\ now - lastTap.time < DuplicateTapMs THEN "duplicateTap"
  ELSE IF /\ ev.pointer.pointerType = "mouse" /\ lastTap.pointerType = "touch"
          /\ now - lastTap.time < MouseAfterTouchMs THEN "mouseAfterTouch"
  ELSE "tap"

upOutcomeNoSuppression(ev) ==
  LET face == resolvedFace(ev)
  IN
  IF isGuidedRunning THEN "guided"
  ELSE IF ev.pointer.pointerType = "touch" /\ ~ev.pointer.isPrimary THEN "nonPrimary"
  ELSE IF ev.pointer.pointerType = "mouse" /\ ev.pointer.button # 0 THEN "button"
  ELSE IF ~ev.closest THEN "notClosest"
  ELSE IF /\ lastPointerUpRef.timeStamp = now
          /\ lastPointerUpRef.pointerId = ev.pointer.pointerId THEN "sameEvent"
  ELSE IF ~pointerDownRef.active THEN "noPress"
  ELSE IF now - pointerDownRef.downAt < MIN_CLICK_PRESS_MS THEN "tooShort"
  ELSE IF samePointer(ev) /\ dragDistance(ev) > dragThreshold(ev) THEN "dragged"
  ELSE IF cameraMoved THEN "cameraMoved"
  ELSE IF ev.delta > dragThreshold(ev) THEN "delta"
  ELSE IF allFaceMeshes = {} THEN "noMeshes"
  ELSE IF face = NoFace THEN "noFace"
  ELSE "tap"

\* onModelPointerUp, up to its decision: the early return the release takes,
\* or "tap".
upOutcome(ev) ==
  LET lastTap == lastResolvedTapRef
      face == resolvedFace(ev)
  IN
  IF isGuidedRunning THEN "guided"
  ELSE IF cameraAnimLock THEN "locked"
  ELSE IF ev.pointer.pointerType = "touch" /\ ~ev.pointer.isPrimary THEN "nonPrimary"
  ELSE IF ev.pointer.pointerType = "mouse" /\ ev.pointer.button # 0 THEN "button"
  ELSE IF ~ev.closest THEN "notClosest"
  ELSE IF /\ lastPointerUpRef.timeStamp = now
          /\ lastPointerUpRef.pointerId = ev.pointer.pointerId THEN "sameEvent"
  ELSE IF ~pointerDownRef.active THEN "noPress"
  ELSE IF now - pointerDownRef.downAt < MIN_CLICK_PRESS_MS THEN "tooShort"
  ELSE IF samePointer(ev) /\ dragDistance(ev) > dragThreshold(ev) THEN "dragged"
  ELSE IF cameraMoved THEN "cameraMoved"
  ELSE IF ev.delta > dragThreshold(ev) THEN "delta"
  ELSE IF allFaceMeshes = {} THEN "noMeshes"
  ELSE IF face = NoFace THEN "noFace"
  ELSE IF /\ lastTap.face # NoFace /\ lastTap.face = face
          /\ lastTap.x # Null /\ Abs(ev.x - lastTap.x) < SameSpotPx
          /\ now - lastTap.time < DuplicateTapMs THEN "duplicateTap"
  ELSE IF /\ ev.pointer.pointerType = "mouse" /\ lastTap.pointerType = "touch"
          /\ now - lastTap.time < MouseAfterTouchMs THEN "mouseAfterTouch"
  ELSE "tap"

\* The returns taken before the release is put on record.
EarlyOutcomes == {"guided", "locked", "nonPrimary", "button", "notClosest", "sameEvent"}

\* onModelPointerUp
PointerUp(ev) ==
  LET o == upOutcome(ev)
  IN
  /\ ready
  /\ held' = heldUp(ev)
  /\ IF o \in EarlyOutcomes
       THEN UNCHANGED <<pointerDownRef, lastPointerUpRef, lastUp>>
       ELSE /\ lastUp' = [x |-> ev.x, outcome |-> o]
            /\ lastPointerUpRef' = [pointerId |-> ev.pointer.pointerId, timeStamp |-> now]
            /\ pointerDownRef' = [pointerDownRef EXCEPT !.active = FALSE]
  /\ IF o = "tap"
       THEN /\ lastResolvedTapRef' =
                 [time |-> now, x |-> ev.x, pointerType |-> ev.pointer.pointerType,
                  face |-> resolvedFace(ev)]
            /\ suppressOrbitSyncUntilRef' =
                 Max(suppressOrbitSyncUntilRef, now + OrbitSyncSuppressMs)
            /\ timerRef' = onInteraction
            /\ calls < MaxCalls
            /\ calls' = calls + 1
            /\ SelectFace(resolvedFace(ev), TRUE, NoOverride)
       ELSE UNCHANGED <<appVars, lastResolvedTapRef, suppressOrbitSyncUntilRef, timerRef>>
  /\ UNCHANGED <<probe, guidedVars>>

\* How far one orbit drag turns the camera.
OrbitTurns == {50}

\* Faulty controls: the rotate, zoom and pan switches do not follow guided
\* mode, so only `enabled` stops a drag.
OrbitWhileGuided(d) ==
  /\ ready
  /\ IF ~controls.enabled
       THEN UNCHANGED <<appVars, timerRef>>
       ELSE /\ calls < MaxCalls
            /\ calls' = calls + 1
            /\ lastOp' = Op("orbit", NoFace, FALSE, NoOverride, "orbit")
            /\ timerRef' = onInteraction
            /\ cam' = [cam EXCEPT !.az = readAzimuth(cam.az + d)]
            /\ levaCameraDistance' =
                 IF ~cameraAnimLock /\ now >= suppressOrbitSyncUntilRef
                   THEN cam.dist ELSE levaCameraDistance
            /\ UNCHANGED <<ready, now, animVars, opacity, glow, scale, center, selVars,
                           controls, cameraAnimLock, notified, panelState>>
  /\ UNCHANGED <<probe, gestureVars, guidedVars, suppressOrbitSyncUntilRef>>

\* A drag on the orbit controls: onStart (onInteraction), the turn, onEnd (the
\* pose written back to the Leva values).  Controls that are disabled, or
\* whose rotation is switched off by guided mode, start nothing.
Orbit(d) ==
  /\ ready
  /\ IF isGuidedRunning \/ ~controls.enabled
       THEN UNCHANGED <<appVars, timerRef>>
       ELSE /\ calls < MaxCalls
            /\ calls' = calls + 1
            /\ lastOp' = Op("orbit", NoFace, FALSE, NoOverride, "orbit")
            /\ timerRef' = onInteraction
            /\ cam' = [cam EXCEPT !.az = readAzimuth(cam.az + d)]
            /\ levaCameraDistance' =
                 IF ~cameraAnimLock /\ now >= suppressOrbitSyncUntilRef
                   THEN cam.dist ELSE levaCameraDistance
            /\ UNCHANGED <<ready, now, animVars, opacity, glow, scale, center, selVars,
                           controls, cameraAnimLock, notified, panelState>>
  /\ UNCHANGED <<probe, gestureVars, guidedVars, suppressOrbitSyncUntilRef>>

\* handlePanelClose: the Back button of the side panel, there while a panel
\* is shown.
PanelClose ==
  /\ ready
  /\ panelState.primary # NoFace
  /\ IF isDemoRunning
       THEN UNCHANGED <<appVars, timerRef>>
       ELSE /\ calls < MaxCalls
            /\ calls' = calls + 1
            /\ timerRef' = onInteraction
            /\ ResetToDefault
  /\ UNCHANGED <<probe, gestureVars, guidedVars, suppressOrbitSyncUntilRef>>

\* Live input on a loaded scene.
GestureNext ==
  \/ ModelReady /\ UNCHANGED <<calls, auxVars>>
  \/ \E ev \in DownEvents : PointerDown(ev)
  \/ \E ev \in MoveEvents : PointerMove(ev)
  \/ \E ev \in UpEvents : PointerUp(ev)
  \/ \E dt \in LongFrameSteps : LongFrame(dt) /\ UNCHANGED <<calls, auxVars>>

GestureSpec == Init /\ [][GestureNext]_vars

(* --------------------------- scripted playback ------------------------ *)

START_DELAY_MS == 5000
HOLD_MS == 2000
PAUSE_MS == 5000
CursorMs == 450
DemoResetMs == 1150
EndResetMs == 1050

\* cubeFacesByName.get(name): the faces of a block, in order.
facesOf(c) == [i \in 1..FacesPerCube |-> [cube |-> c, idx |-> i]]

\* pickCube({exclude}): the first block that is not the home block, is not
\* excluded and has two faces or more.
pickCube(exclude) ==
  LET ok == {i \in 1..NumCubes :
               /\ cubeNames[i] # HomeCube
               /\ cubeNames[i] \notin exclude
               /\ FacesPerCube >= 2}
  IN  IF ok = {} THEN NoCube
      ELSE cubeNames[CHOOSE i \in ok : \A j \in ok : i <= j]

\* 1 - dot(direction a, direction b), by the angle between the two faces
\* around the vertical axis: larger for faces farther apart.
angleScore(a, b) == Abs(shortestAngleDelta(FaceTheta(a), FaceTheta(b)))

\* The two faces of the block with the largest separation: the first pair, in
\* the order of the loops, that no pair beats.
farthestPair(c) ==
  LET pairs == {p \in (1..FacesPerCube) \X (1..FacesPerCube) : p[1] < p[2]}
      score(p) == angleScore(facesOf(c)[p[1]], facesOf(c)[p[2]])
      before(p, q) == p[1] < q[1] \/ (p[1] = q[1] /\ p[2] <= q[2])
      best == CHOOSE p \in pairs :
                \A q \in pairs : score(p) > score(q) \/ (score(p) = score(q) /\ before(p, q))
  IN  [a |-> facesOf(c)[best[1]], b |-> facesOf(c)[best[2]]]

\* The first face of the block other than a and b, else b.
thirdFace(c, a, b) ==
  LET rest == {i \in 1..FacesPerCube : facesOf(c)[i] \notin {a, b}}
  IN  IF rest = {} THEN b ELSE facesOf(c)[CHOOSE i \in rest : \A j \in rest : i <= j]

preferredTop ==
  <<"top_block_2", "top_block_4", "top_block_6", "top_block_8",
    "top_block_1", "top_block_3", "top_block_7", "top_block_9">>

\* The block of the top layer with the most yellow face; all faces being as
\* yellow as each other, the first of the list that the scene has.
pickYellowTop(picked) ==
  LET ok == {i \in 1..Len(preferredTop) :
               preferredTop[i] \in AllCubes /\ preferredTop[i] # picked}
  IN  IF ok = {} THEN NoCube
      ELSE preferredTop[CHOOSE i \in ok : \A j \in ok : i <= j]

\* One step of a script: what it does when it wakes up, and how long it
\* sleeps after it.
Step(do, face, distanceOverride, sleep) ==
  [do |-> do, face |-> face, distanceOverride |-> distanceOverride, sleep |-> sleep]

\* demoClick(face); applyFaceSelection(face, ...); sleep(HOLD_MS)
Click(do, face, distanceOverride) ==
  <<Step("cursor", face, NoOverride, CursorMs), Step(do, face, distanceOverride, HOLD_MS)>>

\* The steps of runDemo after its start delay, up to its early return or its
\* end.
DemoPlan ==
  LET picked == pickCube({})
      pair == farthestPair(picked)
      faceC_sameCube == thirdFace(picked, pair.a, pair.b)
      yellow == pickYellowTop(picked)
      picked2 == IF yellow # NoCube THEN yellow ELSE pickCube({picked})
      picked3 == IF pickCube({picked, picked2}) # NoCube
                   THEN pickCube({picked, picked2}) ELSE picked2
      d == babylonClickDistance
  IN  <<Step("hardReset", NoFace, NoOverride, DemoResetMs),
        Step("intro", NoFace, NoOverride, Max(introFaceFadeMs, introCenterMs) + PAUSE_MS)>>
      \o (IF picked = NoCube THEN <<>>
          ELSE Click("select", pair.a, d) \o Click("select", pair.b, d)
               \o Click("select", faceC_sameCube, d)
               \o Click("select", pair.a, d) \o Click("select", pair.a, d)
               \o (IF picked2 = NoCube THEN <<>>
                   ELSE Click("select", facesOf(picked2)[1], d)
                        \o Click("select", facesOf(HomeCube)[1], NoOverride)
                        \o Click("select", facesOf(picked3)[FacesPerCube], d)
                        \o <<Step("hardReset", NoFace, NoOverride, EndResetMs)>>))

\* The steps of runPanelDemo.
PanelDemoPlan ==
  LET picked == pickCube({})
      pair == farthestPair(picked)
      picked2 == pickCube({picked})
      resetFace == IF picked2 # NoCube THEN facesOf(picked2)[1] ELSE pair.b
      d == babylonClickDistance
  IN  <<Step("hardReset", NoFace, NoOverride, EndResetMs)>>
      \o (IF picked = NoCube THEN <<>>
          ELSE Click("selectEnsure", pair.a, d) \o Click("selectEnsure", pair.b, d)
               \o (IF picked2 = NoCube THEN <<>>
                   ELSE Click("selectEnsure", facesOf(picked2)[1], d))
               \o Click("select", resetFace, d))

Plan == IF script.name = "demo" THEN DemoPlan ELSE PanelDemoPlan

\* The hard reset of the scripts: returnToDefault without the selected block
\* and the selection time.
hardReset ==
  /\ lastOp' = Op("script", NoFace, FALSE, NoOverride, "hardReset")
  /\ animCamera' = animateCameraToPreset(defaultPose, cameraFov)
  /\ controls' = controlsForCameraTween(defaultPose)
  /\ cameraAnimLock' = TRUE
  /\ animScale' = resetAllCubesScale(animScale)
  /\ animOpacity' = resetAllCubesOpacity(animOpacity)
  /\ glow' = resetAllCubesGlow
  /\ panelState' = [primary |-> NoFace, secondary |-> NoFace]
  /\ currentlyExpandedCubeName' = NoCube
  /\ currentlyClickedFace' = NoFace
  /\ UNCHANGED <<ready, now, animCenter, opacity, scale, center, cam, levaCameraDistance,
                 notified, selectedCubeNameRef, lastSelectionAt>>

\* applyFaceSelection(clicked, ...) followed by ensureSelectionVisuals(clicked),
\* which issues the scale and opacity tweens of a selection, sets the glow
\* and the expanded block and face whatever applyFaceSelection did.
selectEnsure(clicked, distanceOverride) ==
  LET path == selectionPath(clicked, TRUE)
      cubeName == findCubeName(clicked)
      camPreset == getCameraPoseForMesh(clicked, desiredDistance(distanceOverride))
  IN
  /\ lastOp' = Op("select", clicked, TRUE, distanceOverride, path)
  /\ animScale' = selectScales(animScale, cubeName)
  /\ animOpacity' = blockSwitchOpacity(animOpacity, clicked)
  /\ glow' = glowOnly(clicked)
  /\ currentlyExpandedCubeName' = cubeName
  /\ currentlyClickedFace' = clicked
  /\ CASE path \in {"noMesh", "noCube", "body", "debounced"} ->
            UNCHANGED <<animCamera, controls, cameraAnimLock, selectedCubeNameRef,
                        lastSelectionAt, panelState>>
       [] path \in {"homeReset", "toggleReset"} ->
            /\ animCamera' = animateCameraToPreset(defaultPose, cameraFov)
            /\ controls' = controlsForCameraTween(defaultPose)
            /\ cameraAnimLock' = TRUE
            /\ panelState' = [primary |-> NoFace, secondary |-> NoFace]
            /\ selectedCubeNameRef' = NoCube
            /\ lastSelectionAt' = -1
       [] path \in {"faceSwitch", "blockSwitch"} ->
            /\ animCamera' = animateCameraToPreset(camPreset, CLICK_INTERACTION_FOV)
            /\ controls' = controlsForCameraTween(camPreset)
            /\ cameraAnimLock' = TRUE
            /\ panelState' = focusPanelForFace(clicked)
            /\ selectedCubeNameRef' = cubeName
            /\ lastSelectionAt' = now
  /\ UNCHANGED <<ready, now, animCenter, opacity, scale, center, cam, levaCameraDistance,
                 notified>>

\* What a step does when the script wakes up.
Do(step) ==
  /\ demoCursor' = (demoCursor \/ step.do = "cursor")
  /\ CASE step.do = "hardReset" -> hardReset
       [] step.do = "intro" ->
            /\ ready' = ready
            /\ lastOp' = Op("script", NoFace, FALSE, NoOverride, "intro")
            /\ playIntroNow
       [] step.do = "cursor" -> UNCHANGED <<ready, now, animVars, sceneVars, selVars,
                                            ctlVars, panelState, lastOp>>
       [] step.do = "select" -> SelectFace(step.face, TRUE, step.distanceOverride)
       [] step.do = "selectEnsure" -> selectEnsure(step.face, step.distanceOverride)

\* The guards of runDemo and runPanelDemo.
\* A faulty start: the request is not checked against the scene.
canStartBeforeLoad == ~isGuidedRunning /\ now <= MaxIdleNow

\* A faulty start: the request is not checked against guided mode.
canStartWhileGuided == ready /\ now <= MaxIdleNow

canStart == ready /\ ~isGuidedRunning /\ now <= MaxIdleNow

\* runDemo(), up to its first sleep.
StartDemo ==
  /\ canStart
  /\ isDemoRunning' = TRUE
  /\ timerRef' = resetTimer
  /\ script' = [name |-> "demo", pc |-> 1, wakeAt |-> now + START_DELAY_MS]
  /\ UNCHANGED <<appVars, probe, gestureVars, isPanelDemoRunning, demoCursor,
                 suppressOrbitSyncUntilRef>>

\* The "d" key: runPanelDemo(), up to its first sleep.
StartPanelDemo ==
  /\ canStart
  /\ isPanelDemoRunning' = TRUE
  /\ timerRef' = resetTimer
  /\ script' = [name |-> "panel", pc |-> 1, wakeAt |-> now + START_DELAY_MS]
  /\ UNCHANGED <<appVars, probe, gestureVars, isDemoRunning, demoCursor,
                 suppressOrbitSyncUntilRef>>

\* A faulty cleanup: the flag of guided mode stays up.
FinallyKeepsGuided ==
  /\ controls' = [controls EXCEPT !.enabled = TRUE]
  /\ UNCHANGED <<isDemoRunning, isPanelDemoRunning>>
  /\ demoCursor' = FALSE
  /\ timerRef' = startTimer(timerRef)
  /\ script' = NoScript
  /\ UNCHANGED <<ready, now, animVars, sceneVars, selVars, levaCameraDistance,
                 cameraAnimLock, notified, panelState, lastOp>>

\* The finally block of both scripts.
Finally ==
  /\ controls' = [controls EXCEPT !.enabled = TRUE]
  /\ isDemoRunning' = FALSE
  /\ isPanelDemoRunning' = FALSE
  /\ demoCursor' = FALSE
  /\ timerRef' = startTimer(timerRef)
  /\ script' = NoScript
  /\ UNCHANGED <<ready, now, animVars, sceneVars, selVars, levaCameraDistance,
                 cameraAnimLock, notified, panelState, lastOp>>

\* The script's sleep is over.
due == script.name # "none" /\ now >= script.wakeAt

\* The script wakes up: it runs its next step and goes to sleep again, or,
\* past its last step or its early return, it runs its cleanup.
ScriptStep ==
  /\ due
  /\ IF script.pc > Len(Plan)
       THEN Finally
       ELSE /\ Do(Plan[script.pc])
            /\ script' = [script EXCEPT !.pc = @ + 1, !.wakeAt = now + Plan[script.pc].sleep]
            /\ UNCHANGED <<isDemoRunning, isPanelDemoRunning, timerRef>>
  /\ UNCHANGED <<calls, probe, gestureVars, suppressOrbitSyncUntilRef>>

\* The step the script wakes up for throws: the cleanup runs.
ScriptFails ==
  /\ due
  /\ script.pc <= Len(Plan)
  /\ Finally
  /\ UNCHANGED <<calls, probe, gestureVars, suppressOrbitSyncUntilRef>>

\* Time between frames while a script can run.
GuidedFrameSteps == {500}

\* The next frame: while a script runs, in time for its wake-up.
GuidedFrame(dt) ==
  /\ IF script # NoScript THEN ~due ELSE now + dt <= MaxIdleNow
  /\ now' = now + dt
  /\ Animator
  /\ UNCHANGED <<lastOp, calls, auxVars>>

\* The live input of the runs with scripts.
LiveDowns == {[pointer |-> MouseLeft, x |-> 0]}
LiveUps ==
  {[pointer |-> MouseLeft, x |-> 0, object |-> f, closest |-> TRUE, behind |-> NoFace,
    delta |-> 0] : f \in {facesOf(HomeCube)[1]}}

LiveInput ==
  \/ \E ev \in LiveDowns : PointerDown(ev)
  \/ \E ev \in LiveUps : PointerUp(ev)
  \/ \E d \in OrbitTurns : Orbit(d)
  \/ PanelClose

GuidedNext ==
  \/ ModelReady /\ UNCHANGED <<calls, auxVars>>
  \/ StartDemo
  \/ StartPanelDemo
  \/ ScriptStep
  \/ ScriptFails
  \/ LiveInput
  \/ \E dt \in GuidedFrameSteps : GuidedFrame(dt)

GuidedSpec == Init /\ [][GuidedNext]_vars

\* Due timers run and frames keep coming.
GuidedFairSpec ==
  /\ GuidedSpec
  /\ WF_vars(ScriptStep)
  /\ WF_vars(\E dt \in GuidedFrameSteps : GuidedFrame(dt))

(* ------------------------ claims on the classifier -------------------- *)

\* The pointer of the release went down on the model, its press is the one on
\* record and is at least MIN_CLICK_PRESS_MS old.
PressOnRecord(ev) ==
  /\ ev.pointer.pointerId \in DOMAIN held
  /\ held[ev.pointer.pointerId].down
  /\ pointerDownRef.active
  /\ pointerDownRef.pointerId = ev.pointer.pointerId
  /\ now - pointerDownRef.downAt >= MIN_CLICK_PRESS_MS

\* The farthest the pointer of the release has been from its press, the
\* release included.
Farthest(ev) ==
  Max(held[ev.pointer.pointerId].farthest, Abs(ev.x - pointerDownRef.x))

\* The drag threshold of the claims: 22 px for a finger, 8 px otherwise.
Threshold(ev) ==
  IF ev.pointer.pointerType = "touch" THEN TOUCH_DRAG_THRESHOLD_PX
  ELSE CLICK_DRAG_THRESHOLD_PX

\* A clean release on a selectable face: guided mode off, no camera tween in
\* flight, press of the same pointer long enough ago, movement below the
\* threshold, camera where it was at the press, no tap within the duplicate
\* windows.
CleanRelease(ev) ==
  /\ ready
  /\ ~isGuidedRunning
  /\ ~cameraAnimLock /\ animCamera = NoTween
  /\ PressOnRecord(ev)
  /\ ev.closest /\ ev.object \in AllFaces
  /\ Farthest(ev) < Threshold(ev) /\ ev.delta < Threshold(ev)
  /\ pointerDownRef.start = [az |-> cam.az, pol |-> cam.pol, dist |-> cam.dist]
  /\ lastResolvedTapRef.time = Null \/ now - lastResolvedTapRef.time >= MouseAfterTouchMs

C12_DragNeverTaps ==
  \A ev \in UpEvents :
    (/\ ev.pointer.pointerId \in DOMAIN held
     /\ held[ev.pointer.pointerId].down
     /\ Max(held[ev.pointer.pointerId].farthest, ev.x) > Threshold(ev))
      => upOutcome(ev) # "tap"

\* A call of applyFaceSelection by the classifier.
TapStep == calls' = calls + 1 /\ lastOp'.op = "select"

\* C13: a tap takes the press on record and uses it up, and only a press puts
\* one on record: between two taps there is a press, and releases after a
\* processed one yield nothing until then.
C13_OneTapPerPress ==
  [][ /\ TapStep => pointerDownRef.active /\ ~pointerDownRef'.active
      /\ (lastUp' # lastUp) => ~pointerDownRef'.active
      /\ (~pointerDownRef.active /\ pointerDownRef'.active)
           => \E ev \in DownEvents : PointerDown(ev) ]_vars

\* After a tap, once the camera had arrived, a release came with no press
\* before it and was dropped.
C13_Witness ==
  /\ lastUp.outcome = "noPress"
  /\ lastResolvedTapRef.time # Null
  /\ calls = 1
  /\ ~cameraAnimLock

(* --------------------- claims on scripted playback -------------------- *)

\* A step of the user while a script runs: neither the script moves nor
\* time passes.
LiveStepWhileGuided == isGuidedRunning /\ script' = script /\ now' = now

\* C14: while guided mode is on, no press, release, orbit interaction or
\* panel close changes the selection, resets the scene or starts a tween.
C14_NoLiveInputWhileGuided ==
  [][ LiveStepWhileGuided => UNCHANGED <<selVars, animVars, panelState>> ]_vars

\* C15: whenever guided mode is on, it is eventually off with the demo cursor
\* hidden, whether the script runs to its end, returns early or a step fails.
C15_GuidedReleased == isGuidedRunning ~> (~isGuidedRunning /\ ~demoCursor)

\* The panel script has run to its end: its last click was on the first
\* block, the cleanup has given the controls back and armed the inactivity
\* timer.
C15_Witness ==
  /\ script = NoScript
  /\ ~isGuidedRunning /\ ~demoCursor
  /\ controls.enabled
  /\ timerRef.active /\ timerRef.due = now + InactivityMs
  /\ lastOp.op = "select" /\ lastOp.mesh = PanelDemoPlan[Len(PanelDemoPlan)].face
  /\ now >= START_DELAY_MS + EndResetMs + 3 * (CursorMs + HOLD_MS)

\* What can stop a script from outside: a step of the user that turns guided
\* mode off.
StopFromOutside ==
  /\ LiveInput \/ StartDemo \/ StartPanelDemo
  /\ ~isGuidedRunning'

\* C16: a running script can be stopped from outside.
C16_CanBeStopped == isGuidedRunning => ENABLED StopFromOutside

(* ------------------------ pose solver, in detail ---------------------- *)

\* Lengths of this section are in units of 1e-5: the squared length below
\* which a direction counts as degenerate, 1e-8, is 100 square units.
DegenerateLengthSq == 100

\* Vector3.lengthSq()
lengthSq(v) == v.x * v.x + v.y * v.y + v.z * v.z

Sign(n) == IF n > 0 THEN 1 ELSE IF n < 0 THEN -1 ELSE 0

\* Math.atan2(x, z) of a direction along an axis or a diagonal; atan2(0, 0)
\* is 0.
Atan2(x, z) ==
  IF x = 0 THEN (IF z < 0 THEN PI ELSE 0)
  ELSE Sign(x) * (IF z > 0 THEN PI \div 4 ELSE IF z = 0 THEN PI \div 2 ELSE (3 * PI) \div 4)

\* Math.acos(y / r) of such a direction, r * r being n2 times y * y or y = 0.
Acos(y, n2) ==
  LET sharp == CASE n2 = 1 -> 0 [] n2 = 2 -> PI \div 4 [] n2 = 3 -> 955
  IN  IF y = 0 THEN PI \div 2 ELSE IF y > 0 THEN sharp ELSE PI - sharp

\* new Spherical().setFromVector3(dir.normalize().multiplyScalar(distance)):
\* normalize() divides by length() || 1 and leaves the zero vector alone, and
\* a vector of radius 0 has theta = phi = 0.
sphericalOf(dir, distance) ==
  LET u == [x |-> Sign(dir.x), y |-> Sign(dir.y), z |-> Sign(dir.z)]
  IN  IF lengthSq(dir) = 0 \/ distance = 0
        THEN [theta |-> 0, phi |-> 0]
        ELSE [theta |-> Atan2(u.x, u.z), phi |-> Acos(u.y, lengthSq(u))]

\* A faulty solver: no test for a degenerate direction.
poseFromDirectionNoFallback(dir, mesh, distance) ==
  LET spherical == sphericalOf(dir, distance)
  IN  [azimuth |-> normalizeAngleMinusPiToPi(spherical.theta + presetYawOffset),
       polar |-> clamp(spherical.phi + presetPolarOffset, PoseMinPolar, PoseMaxPolar),
       distance |-> distance]

\* getCameraPoseForMesh(mesh, distance), dir being the face's world position
\* less the look-at point.
poseFromDirection(dir, mesh, distance) ==
  LET spherical == sphericalOf(dir, distance)
  IN  IF lengthSq(dir) < DegenerateLengthSq
        THEN getCameraPoseForFace(mesh)
        ELSE [azimuth |-> normalizeAngleMinusPiToPi(spherical.theta + presetYawOffset),
              polar |-> clamp(spherical.phi + presetPolarOffset, PoseMinPolar, PoseMaxPolar),
              distance |-> distance]

\* Directions along the axes and the diagonals, and none.
PoseUnits == [x : {-1, 0, 1}, y : {-1, 0, 1}, z : {-1, 0, 1}]
\* Their lengths per axis: well below the limit, just below it on two axes,
\* on the limit, and the size of a block.
PoseScales == {1, 7, 10, 10000}
\* The distances a caller asks for: the least, the default and the largest
\* click distance.
PoseDistances == {5000, babylonClickDistance, 150000}

PoseInit ==
  /\ AppInit
  /\ UiInit
  /\ probe \in [fn : {"getCameraPoseForMesh"}, u : PoseUnits, s : PoseScales,
                mesh : AllFaces, distance : PoseDistances, done : {FALSE},
                out : {defaultPose}]

probeDir == [x |-> probe.s * probe.u.x, y |-> probe.s * probe.u.y, z |-> probe.s * probe.u.z]

ApplyPose ==
  /\ probe.fn = "getCameraPoseForMesh"
  /\ ~probe.done
  /\ probe' = [probe EXCEPT !.done = TRUE,
                            !.out = poseFromDirection(probeDir, probe.mesh, probe.distance)]
  /\ UNCHANGED <<appVars, uiVars>>

PoseNext == ApplyPose

PoseSpec == PoseInit /\ [][PoseNext]_vars

\* C21: a direction of squared length below 1e-8 yields the fallback pose of
\* the face, whatever the direction and the distance asked for, and every
\* pose returned has an azimuth within half a turn of 0, a polar angle
\* between the poles and a distance above 0.
C21_DegenerateFallsBack ==
  (probe.fn = "getCameraPoseForMesh" /\ probe.done)
    => /\ lengthSq(probeDir) < DegenerateLengthSq
            => probe.out = getCameraPoseForFace(probe.mesh)
       /\ probe.out.azimuth \in (0 - PI)..PI
       /\ probe.out.polar \in 0..PI
       /\ probe.out.distance > 0

\* A face 7e-5 off the look-at point on two axes (squared length 9.8e-9) got
\* the fallback pose, not the pose of its direction.
C21_Witness ==
  /\ probe.fn = "getCameraPoseForMesh" /\ probe.done
  /\ probe.s = 7 /\ lengthSq(probe.u) = 2 /\ probe.u.y = 0
  /\ probe.out = getCameraPoseForFace(probe.mesh)
  /\ probe.out # poseFromDirectionNoFallback(probeDir, probe.mesh, probe.distance)

(* ------------------------ claims on Selection State ------------------- *)

\* C22: in every state the selected block is none exactly when the selected
\* face is none, the expanded block is the selected block, and a selected
\* face is a face of the selected block.
C22_SelectionConsistent ==
  /\ (selectedCubeNameRef = NoCube) <=> (currentlyClickedFace = NoFace)
  /\ currentlyExpandedCubeName = selectedCubeNameRef
  /\ currentlyClickedFace # NoFace => findCubeName(currentlyClickedFace) = selectedCubeNameRef

\* Selection State after selectFace(clicked, {allowHomeReset}), by the
\* transition table.
selectionAfter(clicked, allowHomeReset) ==
  LET path == selectionPath(clicked, allowHomeReset)
  IN  CASE path \in {"noMesh", "noCube", "body", "debounced"} -> selVars
        [] path \in {"homeReset", "toggleReset"} -> <<NoCube, NoCube, NoFace, -1>>
        [] path = "faceSwitch" ->
             <<findCubeName(clicked), currentlyExpandedCubeName, clicked, now>>
        [] path = "blockSwitch" ->
             <<findCubeName(clicked), findCubeName(clicked), clicked, now>>

\* C23: a step that changes the selected block, the selected face or the
\* time of the last selection is a call of selectFace or of resetToDefault,
\* and leaves Selection State as that call leaves it.
C23_SingleMutator ==
  [][ selVars' # selVars =>
        \/ lastOp'.op = "reset" /\ selVars' = <<NoCube, NoCube, NoFace, -1>>
        \/ /\ lastOp'.op = "select"
           /\ selVars' = selectionAfter(lastOp'.mesh, lastOp'.allowHomeReset) ]_vars

(* ---------------------------- claims on emphasis ---------------------- *)

\* C24: in every state at most one face glows, a glowing face is the selected
\* face, and no face glows while nothing is selected.
C24_EmphasisExclusive ==
  /\ Cardinality({f \in AllFaces : glow[f]}) <= 1
  /\ \A f \in AllFaces : glow[f] => f = currentlyClickedFace
  /\ (selectedCubeNameRef = NoCube /\ currentlyClickedFace = NoFace)
       => \A f \in AllFaces : ~glow[f]

\* A second face of the selected block has been tapped: the glow has moved
\* from the first face to it.
C24_Witness ==
  /\ lastOp.op = "select" /\ lastOp.path = "faceSwitch"
  /\ currentlyClickedFace = lastOp.mesh
  /\ {f \in AllFaces : glow[f]} = {lastOp.mesh}
  /\ lastOp.prevFace \in AllFaces \ {lastOp.mesh}

(* ------------------------ claims on the camera lock ------------------- *)

\* Runs with quick clicks: the frame after a press made while the camera is
\* locked comes this many ms later, so that the press and its release fit
\* into the start of a camera tween, before the camera has moved by the
\* tolerance of the classifier.
QuickFrameMs == 50

QuickFrame ==
  /\ cameraAnimLock
  /\ pointerDownRef.active /\ now = pointerDownRef.downAt
  /\ LongFrame(QuickFrameMs)

QuickDowns == [pointer : {MouseLeft, Touch}, x : {0}]
QuickUps ==
  [pointer : {MouseLeft, Touch}, x : {0}, object : TapFaces, closest : {TRUE},
   behind : {NoFace}, delta : {0}]

QuickNext ==
  \/ ModelReady /\ UNCHANGED <<calls, auxVars>>
  \/ \E ev \in QuickDowns : PointerDown(ev)
  \/ \E ev \in QuickUps : PointerUp(ev)
  \/ \E dt \in LongFrameSteps : LongFrame(dt) /\ UNCHANGED <<calls, auxVars>>
  \/ QuickFrame /\ UNCHANGED <<calls, auxVars>>

QuickSpec == Init /\ [][QuickNext]_vars

\* C25: a step that issues a camera tween sets the lock, the lock is cleared
\* only by the step that completes the camera tween, a camera tween in flight
\* has the lock set, and no release taken while the lock is set is a tap.
C25_NoTapDuringCameraTween ==
  [][ /\ (animCamera' # NoTween /\ animCamera' # animCamera) => cameraAnimLock'
      /\ (cameraAnimLock /\ ~cameraAnimLock')
           => (animCamera # NoTween /\ animCamera' = NoTween)
      /\ animCamera # NoTween => cameraAnimLock
      /\ cameraAnimLock => ~TapStep ]_vars

\* After a tap, while its camera tween was in flight, the mouse was pressed
\* and released: the release was dropped before it was put on record.
C25_Witness ==
  /\ cameraAnimLock /\ animCamera # NoTween
  /\ calls = 1 /\ lastOp.op = "select"
  /\ pointerDownRef.active /\ ~held[pointerDownRef.pointerId].down
  /\ now >= pointerDownRef.downAt + MIN_CLICK_PRESS_MS
  /\ ~cameraMoved

(* ------------------- further claims on the classifier ----------------- *)

\* C26: a release of a pointer other than the one whose press is on record,
\* both ids being known, is never a tap.
C26_OtherPointerNeverTaps ==
  \A ev \in UpEvents :
    (/\ pointerDownRef.active
     /\ pointerDownRef.pointerId # Null
     /\ ev.pointer.pointerId # Null
     /\ ev.pointer.pointerId # pointerDownRef.pointerId)
      => upOutcome(ev) # "tap"

\* C27: a release whose nearest intersection is not a selectable face of a
\* known block is never a tap, whatever lies behind it.
C27_NeverSeesThrough ==
  \A ev \in UpEvents :
    (ev.closest /\ ~isKnownFace(ev.object)) => upOutcome(ev) # "tap"

\* The pointer whose press is on record is still down.
PressStillHeld ==
  /\ pointerDownRef.pointerId \in DOMAIN held
  /\ held[pointerDownRef.pointerId].down

\* C28: the release of the pointer whose press is on record leaves the
\* record inactive, also when it comes while guided mode is on or the camera
\* is locked and is dropped.
C28_PressRecordEndsWithRelease ==
  [][ (/\ pointerDownRef.active
       /\ PressStillHeld
       /\ ~held'[pointerDownRef.pointerId].down
       /\ isGuidedRunning \/ cameraAnimLock)
        => ~pointerDownRef'.active ]_vars

\* The release repeats the preceding resolved tap: the same face, less than
\* 2 px from it and less than 320 ms after it.
repeatsLastTap(ev) ==
  /\ lastResolvedTapRef.face # NoFace /\ resolvedFace(ev) = lastResolvedTapRef.face
  /\ lastResolvedTapRef.x # Null /\ Abs(ev.x - lastResolvedTapRef.x) < SameSpotPx
  /\ now - lastResolvedTapRef.time < DuplicateTapMs

\* The release is the mouse's, less than 800 ms after a resolved touch tap.
mouseFollowsTouchTap(ev) ==
  /\ ev.pointer.pointerType = "mouse" /\ lastResolvedTapRef.pointerType = "touch"
  /\ now - lastResolvedTapRef.time < MouseAfterTouchMs

\* While a resolved tap is less than 800 ms old the camera tween it issued is
\* still in flight, so a release inside either window returns at the camera
\* lock, before the two duplicate tests of onModelPointerUp are reached.
LockCoversDuplicateWindows ==
  (lastResolvedTapRef.face # NoFace /\ now - lastResolvedTapRef.time < MouseAfterTouchMs)
    => cameraAnimLock

OrbitNext ==
  \/ ModelReady /\ UNCHANGED <<calls, auxVars>>
  \/ \E ev \in QuickDowns : PointerDown(ev)
  \/ \E ev \in QuickUps : PointerUp(ev)
  \/ \E d \in OrbitTurns : Orbit(d)
  \/ \E dt \in LongFrameSteps : LongFrame(dt) /\ UNCHANGED <<calls, auxVars>>

OrbitSpec == Init /\ [][OrbitNext]_vars

\* The camera is no longer where it was at `start`: the azimuth, along the
\* shortest arc, or the polar angle is off by more than 0.01 rad, or the
\* distance by more than 0.05.
movedSince(start) ==
  /\ start # NoPose
  /\ \/ Abs(shortestAngleDelta(start.az, cam.az)) > CameraMovedAngle
     \/ Abs(cam.pol - start.pol) > CameraMovedAngle
     \/ Abs(cam.dist - start.dist) > CameraMovedDistance

\* C30: a release is never classed as a tap when the camera has moved, since
\* the pointer of the release went down, by more than 0.01 rad in azimuth
\* (shortest arc) or polar angle or by more than 0.05 in distance, however
\* little the pointer itself has moved.
C30_CameraMoveCancelsTap ==
  \A ev \in UpEvents :
    (/\ ev.pointer.pointerId \in DOMAIN held
     /\ held[ev.pointer.pointerId].down
     /\ movedSince(held[ev.pointer.pointerId].start))
      => upOutcome(ev) # "tap"

\* The same for the release of the pointer whose press is the one on record.
CameraMoveCancelsTapOfRecordedPress ==
  \A ev \in UpEvents :
    (PressOnRecord(ev) /\ movedSince(held[ev.pointer.pointerId].start))
      => upOutcome(ev) # "tap"

(* --------------------- further claims on the scripts ------------------ *)

\* C31: while guided mode is on a drag on the orbit controls moves nothing:
\* the camera, the Leva values and the inactivity timer stay as they are and
\* no interaction is counted, also after a camera tween that completed during
\* the script has set controls.enabled again.
C31_ControlsOffWhileGuided ==
  [][ \A d \in OrbitTurns :
        (isGuidedRunning /\ Orbit(d))
          => (UNCHANGED <<cam, levaCameraDistance, timerRef, calls>>) ]_vars

\* The script is running, the camera tween of one of its steps has completed
\* and has set controls.enabled, and guided mode is still on.
C31_Witness ==
  /\ isGuidedRunning /\ script # NoScript
  /\ controls.enabled /\ animCamera = NoTween /\ ~cameraAnimLock
  /\ lastOp.op = "select"

\* C32: the two guided flags are never up together, and while guided mode is
\* on no step starts a script: the flags that are down stay down and the
\* running script is the same one, no earlier in its plan, or has ended.
C32_OneScriptAtATime ==
  [][ /\ ~(isDemoRunning' /\ isPanelDemoRunning')
      /\ isGuidedRunning
           => /\ isDemoRunning' => isDemoRunning
              /\ isPanelDemoRunning' => isPanelDemoRunning
              /\ \/ script' = NoScript
                 \/ script'.name = script.name /\ script'.pc >= script.pc ]_vars

\* The panel script is past its first step and is the only one running.
C32_Witness ==
  /\ isPanelDemoRunning /\ ~isDemoRunning
  /\ script.name = "panel" /\ script.pc > 1

\* C33: while guided mode is on no inactivity timer is pending, so none can
\* fire: the start of a script cancels the pending one, no step taken while
\* guided mode is on arms one, except the cleanup that ends the script.
C33_NoTimerWhileGuided ==
  [][ /\ isGuidedRunning' => ~timerRef'.active
      /\ (isGuidedRunning /\ timerRef'.active)
           => (~isGuidedRunning' /\ script' = NoScript) ]_vars

\* An orbit drag armed the timer, then the script was started: the timer it
\* had armed is cancelled.
C33_Witness ==
  /\ isGuidedRunning /\ script.pc = 1
  /\ lastOp.op = "orbit"
  /\ ~timerRef.active /\ timerRef.due = now + InactivityMs

(* --------------------------- inactivity timer ------------------------- *)

\* Frame spacing and length of the runs that wait for the inactivity timer.
IdleFrameMs == 10000
MaxIdleTime == 40000

\* The callback of the timeout set by startTimer, run once its time has
\* come: returnToDefault(), then timerRef.current.active = false.
Timeout ==
  /\ \E d \in timerRef.pending :
       /\ now >= d
       /\ timerRef' = [timerRef EXCEPT !.active = FALSE, !.pending = @ \ {d}]
  /\ lastOp' = Op("timeout", NoFace, FALSE, NoOverride, "reset")
  /\ returnToDefault
  /\ UNCHANGED <<calls, probe, gestureVars, guidedVars, suppressOrbitSyncUntilRef>>

\* A frame of an idle scene; a timeout whose time has come runs before the
\* next frame.
IdleFrame ==
  /\ \A d \in timerRef.pending : now < d
  /\ now + IdleFrameMs <= MaxIdleTime
  /\ now' = now + IdleFrameMs
  /\ Animator
  /\ UNCHANGED <<lastOp, calls, auxVars>>

\* A loaded scene, the mouse, the orbit controls, the Back button and the
\* inactivity timer.
IdleNext ==
  \/ ModelReady /\ UNCHANGED <<calls, auxVars>>
  \/ \E ev \in LiveDowns : PointerDown(ev)
  \/ \E ev \in LiveUps : PointerUp(ev)
  \/ \E d \in OrbitTurns : Orbit(d)
  \/ PanelClose
  \/ IdleFrame
  \/ Timeout

IdleSpec == Init /\ [][IdleNext]_vars

\* The runtime runs a timeout whose time has come.
IdleFairSpec == IdleSpec /\ WF_vars(Timeout)

\* C34: every live interaction (a tap, a drag on the orbit controls, the Back
\* button) leaves exactly one timeout pending, due 30 000 ms later; there is
\* never more than one; the timeout runs only when its 30 000 ms have passed
\* with no interaction in between, it performs the reset and leaves the timer
\* inactive with nothing pending; and a timeout whose time has come does
\* run, unless an interaction comes first and arms the next one.
C34_InactivityReset ==
  /\ [][ /\ calls' = calls + 1
              => timerRef' = [active |-> TRUE, due |-> now + InactivityMs,
                              pending |-> {now + InactivityMs}]
         /\ Cardinality(timerRef'.pending) <= 1
         /\ timerRef'.active <=> timerRef'.pending = {timerRef'.due}
         /\ Timeout
              => /\ timerRef.active /\ now >= timerRef.due
                 /\ ~timerRef'.active /\ timerRef'.pending = {}
                 /\ selectedCubeNameRef' = NoCube /\ currentlyClickedFace' = NoFace
                 /\ currentlyExpandedCubeName' = NoCube /\ lastSelectionAt' = -1 ]_vars
  /\ (timerRef.active /\ now >= timerRef.due)
       ~> ((lastOp.op = "timeout" /\ ~timerRef.active) \/ now < timerRef.due)

\* A face was tapped, nothing happened for 30 000 ms, and the timeout has
\* reset the scene.
C34_Witness ==
  /\ lastOp.op = "timeout"
  /\ calls = 1 /\ lastResolvedTapRef.time # Null
  /\ now >= lastResolvedTapRef.time + InactivityMs
  /\ ~timerRef.active /\ timerRef.pending = {}
  /\ selectedCubeNameRef = NoCube

\* C35: a block that is not found costs runDemo the step that needed it and
\* nothing more: the script runs its remaining steps, so when it comes to its
\* cleanup without a step having thrown, the step before was its last, the
\* reset of the scene.
C35_FailedStepSkipped ==
  [][ (script.name = "demo" /\ script.pc > Len(DemoPlan) /\ script' = NoScript)
        => (lastOp.op = "script" /\ lastOp.path = "hardReset") ]_vars

(* ------------------------- the tween registry ------------------------- *)

\* animRef.current holds nothing: no opacity tween, no scale tween, no
\* camera tween, no intro tween.
RegistryEmpty ==
  /\ \A f \in AllFaces : animOpacity[f] = NoTween
  /\ \A c \in AllCubes : animScale[c] = NoTween
  /\ animCamera = NoTween
  /\ animCenter = NoTween

\* The next frame; past MaxNow frames go on, 500 ms apart, only until the
\* registry is empty.
DrainFrame(dt) ==
  /\ now + dt <= MaxNow \/ (dt \in LongFrameSteps /\ ~RegistryEmpty)
  /\ now' = now + dt
  /\ Animator
  /\ UNCHANGED lastOp

\* Taps, resets and replays of the intro up to MaxNow, and frames until the
\* tweens they issued are gone.
DrainNext ==
  \/ ModelReady /\ UNCHANGED <<calls, auxVars>>
  \/ now <= MaxNow /\ Call(ReplayIntro)
  \/ \E m \in TapFaces : now <= MaxNow /\ Call(SelectFace(m, TRUE, NoOverride))
  \/ now <= MaxNow /\ Call(ResetToDefault)
  \/ \E dt \in FrameSteps : DrainFrame(dt) /\ UNCHANGED <<calls, auxVars>>

DrainSpec == Init /\ [][DrainNext]_vars

\* Frames keep coming.
DrainFairSpec ==
  DrainSpec /\ WF_vars(\E dt \in FrameSteps : DrainFrame(dt) /\ UNCHANGED <<calls, auxVars>>)

\* The step is a frame.
FrameStep == now' # now

\* C36: a frame at which now - t0 >= dur removes the opacity or scale tween
\* and leaves its target at the tween's value for t = 1; a frame before that
\* keeps the tween; no step other than a frame empties a slot; and with
\* frames coming and no more tweens issued the whole registry, camera and
\* intro slots included, becomes empty.
C36_TweensRetiredOnCompletion ==
  /\ [][ /\ \A f \in AllFaces :
              animOpacity[f] # NoTween
                => LET tw == animOpacity[f]
                   IN  /\ (FrameStep /\ now' - tw.t0 >= tw.dur)
                            => /\ animOpacity'[f] = NoTween
                               /\ opacity'[f] = sampleOpacity(tw, tw.t0 + tw.dur)
                       /\ (FrameStep /\ now' - tw.t0 < tw.dur) => animOpacity'[f] = tw
                       /\ ~FrameStep => animOpacity'[f] # NoTween
         /\ \A c \in AllCubes :
              animScale[c] # NoTween
                => LET tw == animScale[c]
                   IN  /\ (FrameStep /\ now' - tw.t0 >= tw.dur)
                            => /\ animScale'[c] = NoTween
                               /\ scale'[c] = sampleScale(tw, tw.t0 + tw.dur)
                       /\ (FrameStep /\ now' - tw.t0 < tw.dur) => animScale'[c] = tw
                       /\ ~FrameStep => animScale'[c] # NoTween ]_vars
  /\ ~RegistryEmpty ~> RegistryEmpty

\* A tap was made, its opacity and scale tweens have been removed with the
\* faces and blocks at their targets, and the frames since have emptied the
\* camera slot as well.
C36_Witness ==
  /\ RegistryEmpty
  /\ lastOp.op = "select" /\ lastOp.path = "blockSwitch"
  /\ opacity[lastOp.mesh] = FullOpacity
  /\ scale[lastOp.mesh.cube] = SELECTED_CUBE_SCALE
  /\ now >= lastSelectionAt + CameraDur

(* ------------------------ a tap after a reset ------------------------- *)

\* Calls of the runs below.
MaxResetCalls == 3

\* Taps on faces and resets, three calls long: a face can be selected, the
\* scene reset and the face selected again.
ResetNext ==
  \/ ModelReady /\ UNCHANGED <<calls, auxVars>>
  \/ \E m \in TapFaces :
       /\ calls < MaxResetCalls /\ calls' = calls + 1
       /\ SelectFace(m, TRUE, NoOverride) /\ UNCHANGED auxVars
  \/ /\ calls < MaxResetCalls /\ calls' = calls + 1
     /\ ResetToDefault /\ UNCHANGED auxVars
  \/ \E dt \in FrameSteps : Frame(dt) /\ UNCHANGED <<calls, auxVars>>

ResetSpec == Init /\ [][ResetNext]_vars

\* The paths that run returnToDefault.
ResetPaths == {"reset", "homeReset", "toggleReset"}

\* C37: every reset leaves no selection and the time of the last selection
\* cleared, and the call of applyFaceSelection for a face X of the loaded
\* scene that comes next, however soon after X was selected, is a block
\* switch to X.
C37_ResetClearsDebounce ==
  [][ /\ (calls' = calls + 1 /\ lastOp'.path \in ResetPaths)
           => /\ lastSelectionAt' = -1
              /\ selectedCubeNameRef' = NoCube
              /\ currentlyExpandedCubeName' = NoCube
              /\ currentlyClickedFace' = NoFace
      /\ (/\ lastOp.path \in ResetPaths /\ ready
          /\ calls' = calls + 1 /\ lastOp'.op = "select" /\ lastOp'.mesh \in AllFaces)
           => /\ lastOp'.path = "blockSwitch"
              /\ selectedCubeNameRef' = lastOp'.mesh.cube
              /\ currentlyExpandedCubeName' = lastOp'.mesh.cube
              /\ currentlyClickedFace' = lastOp'.mesh
              /\ lastSelectionAt' = now ]_vars

\* A face was selected, the scene was reset and the face's block selected
\* again, all within 500 ms: the third call found no selection and its scale
\* tween starts from the size the first selection had given the block.
C37_Witness ==
  /\ calls = 3 /\ now < DebounceMs
  /\ lastOp.op = "select" /\ lastOp.path = "blockSwitch"
  /\ lastOp.prevCube = NoCube
  /\ animScale[lastOp.mesh.cube] # NoTween
  /\ animScale[lastOp.mesh.cube].from > NeutralScale

(* ------------------------ the polar angle of a pose ------------------- *)

\* The least and the largest presetPolarOffset and presetYawOffset that the
\* panel allows (-1..1 and -Math.PI..Math.PI).
PolarTrimMin == -1000
PolarTrimMax == 1000
TrimPolars == {PolarTrimMin, -300, 0, PolarTrimMax}
TrimYaws == {0 - PI, 0, PI}
\* Sizes of a direction: degenerate, and the size of a block.
TrimScales == {1, 10000}
\* Raw fractions of a camera tween at which a frame samples it.
TrimFractions == {0, 300, 500, 1000}

\* getCameraPoseForFace(name) with the offsets yaw and pol of the panel.
facePoseWithTrim(f, yaw, pol) ==
  LET second == FaceNameSecond(f)
      alpha == CASE second = "1" -> -1164
                 [] second = "2" -> -2856
                 [] second = "3" -> 1963
                 [] second = "4" -> 449
                 [] second = "b" -> 4512
                 [] OTHER -> 5012
      beta == CASE second = "1" -> 1563
                [] second = "2" -> 1510
                [] second = "3" -> 1535
                [] second = "4" -> 1564
                [] second = "b" -> PI - 500
                [] OTHER -> 300
  IN  [azimuth |-> normalizeAngleMinusPiToPi((PI \div 2) - alpha + yaw),
       polar |-> beta + pol,
       distance |-> levaCameraDistance]

\* getCameraPoseForMesh(mesh, distance) with the offsets yaw and pol, dir
\* being the face's world position less the look-at point.
poseWithTrim(dir, mesh, distance, yaw, pol) ==
  LET spherical == sphericalOf(dir, distance)
  IN  IF lengthSq(dir) < DegenerateLengthSq
        THEN facePoseWithTrim(mesh, yaw, pol)
        ELSE [azimuth |-> normalizeAngleMinusPiToPi(spherical.theta + yaw),
              polar |-> clamp(spherical.phi + pol, PoseMinPolar, PoseMaxPolar),
              distance |-> distance]

TrimInit ==
  /\ AppInit
  /\ UiInit
  /\ probe \in [fn : {"poseWithTrim"}, u : PoseUnits, s : TrimScales, mesh : AllFaces,
                distance : {babylonClickDistance}, yaw : TrimYaws, pol : TrimPolars,
                done : {FALSE}, out : {defaultPose},
                tweened : {FALSE}, from : {defaultPose}, written : {defaultPosePolar}]

\* The solver is applied to the face.
ApplyTrimmedPose ==
  /\ probe.fn = "poseWithTrim"
  /\ ~probe.done
  /\ probe' = [probe EXCEPT !.done = TRUE,
                            !.out = poseWithTrim(probeDir, probe.mesh, probe.distance,
                                                 probe.yaw, probe.pol)]
  /\ UNCHANGED <<appVars, uiVars>>

\* A frame of a camera tween from the pose of another face to the pose
\* solved: the polar angle that the Animator writes.
TweenPolar(u, mesh, f) ==
  /\ probe.fn = "poseWithTrim"
  /\ probe.done
  /\ ~probe.tweened
  /\ LET from == poseWithTrim([x |-> probe.s * u.x, y |-> probe.s * u.y, z |-> probe.s * u.z],
                              mesh, probe.distance, probe.yaw, probe.pol)
     IN  probe' = [probe EXCEPT !.tweened = TRUE,
                                !.from = from,
                                !.written = Lerp(from.polar, probe.out.polar, easeInOutCubic(f))]
  /\ UNCHANGED <<appVars, uiVars>>

TrimNext ==
  \/ ApplyTrimmedPose
  \/ \E u \in {v \in PoseUnits : v.x = 0 /\ v.z = 0}, mesh \in AllFaces, f \in TrimFractions :
       TweenPolar(u, mesh, f)

TrimSpec == TrimInit /\ [][TrimNext]_vars

\* C38: every pose that the solver returns, by its computed path or by its
\* fallback path and with any offsets that the panel allows, has a polar
\* angle strictly between 0 and pi, and so has every polar angle that a
\* camera tween between two such poses writes.
C38_PolarInOpenInterval ==
  (probe.fn = "poseWithTrim" /\ probe.done)
    => /\ probe.out.polar > 0 /\ probe.out.polar < PI
       /\ probe.tweened => (probe.written > 0 /\ probe.written < PI)

\* What the code does keep: the computed path is within a thousandth of the
\* poles, and a tween writes angles between those of its two poses.
PolarOfComputedPath ==
  (probe.fn = "poseWithTrim" /\ probe.done)
    => /\ lengthSq(probeDir) >= DegenerateLengthSq
            => probe.out.polar \in PoseMinPolar..PoseMaxPolar
       /\ probe.tweened
            => \/ probe.written \in probe.from.polar..probe.out.polar
               \/ probe.written \in probe.out.polar..probe.from.polar

(* ------------------------ ranges of the animated values --------------- *)

\* C39: whatever selections, resets, intro plays and frames there were,
\* tweens replaced in flight included, the scale of every block is between
\* DIMMED_CUBE_BOUNCE and SELECTED_CUBE_BOUNCE (0.76 and 1.38) and the
\* opacity of every face is between 0 and 1.
C39_AnimatedValuesInRange ==
  /\ \A c \in AllCubes : scale[c] \in DIMMED_CUBE_BOUNCE..SELECTED_CUBE_BOUNCE
  /\ \A f \in AllFaces : opacity[f] \in 0..FullOpacity

\* One block is beyond its selected scale on the way to its bounce, another
\* is below its dimmed scale, a face is part faded, and a scale tween that
\* replaced another began at a value of the flight.
C39_Witness ==
  /\ \E c \in AllCubes : scale[c] > SELECTED_CUBE_SCALE
  /\ \E c \in AllCubes : scale[c] < DIMMED_CUBE_SCALE
  /\ \E f \in AllFaces : opacity[f] > 0 /\ opacity[f] < DIMMED_FACE_OPACITY
  /\ \E c \in AllCubes :
       /\ animScale[c] # NoTween
       /\ animScale[c].from \notin {NeutralScale, SELECTED_CUBE_SCALE, DIMMED_CUBE_SCALE}

(* ------------------------ calls without scene data -------------------- *)

\* A call of run() that returns at one of its guards: guided mode is on
\* already, or the model, the list of faces or the camera is missing.
StartReturns(run) ==
  /\ isGuidedRunning \/ ~ready
  /\ lastOp' = Op(run, NoFace, FALSE, NoOverride, "returned")
  /\ UNCHANGED <<ready, now, animVars, sceneVars, selVars, ctlVars, panelState, calls, auxVars>>

\* runDemo() and runPanelDemo() asked for at any time.
RequestDemo == StartDemo \/ StartReturns("runDemo")
RequestPanelDemo == StartPanelDemo \/ StartReturns("runPanelDemo")

MissingNext ==
  \/ ModelReady /\ UNCHANGED <<calls, auxVars>>
  \/ \E m \in Meshes : ~isGuidedRunning /\ Call(SelectFace(m, TRUE, NoOverride))
  \/ RequestDemo
  \/ RequestPanelDemo
  \/ ScriptStep
  \/ \E dt \in GuidedFrameSteps : GuidedFrame(dt)

MissingSpec == Init /\ [][MissingNext]_vars

\* C40: a call of applyFaceSelection with no face, or with a mesh that has
\* none of the known blocks above it (every mesh, while the scene is not
\* loaded), changes nothing; and while the scene is not loaded no step, a
\* request for a script included, turns guided mode on.
C40_MissingDataIsNoOp ==
  [][ /\ (/\ calls' = calls + 1
          /\ lastOp'.op = "select"
          /\ (lastOp'.mesh = NoFace \/ findCubeName(lastOp'.mesh) = NoCube))
           => UNCHANGED <<ready, now, animVars, sceneVars, selVars, ctlVars, panelState,
                          auxVars>>
      /\ ~ready => (~isDemoRunning' /\ ~isPanelDemoRunning' /\ script' = NoScript) ]_vars

\* Before the scene is loaded a face was passed to applyFaceSelection and
\* then a script was asked for: nothing is selected, no tween is on its way
\* and guided mode is off.
C40_Witness ==
  /\ ~ready
  /\ calls = 1
  /\ lastOp.op = "runDemo" /\ lastOp.path = "returned"
  /\ selectedCubeNameRef = NoCube
  /\ RegistryEmpty
  /\ ~isGuidedRunning /\ script = NoScript

\* After the scene is loaded and a face selected, a call with no face or
\* with a mesh outside the blocks has left the selection alone.
StrayCallAfterSelection ==
  /\ ready
  /\ calls = 2
  /\ lastOp.op = "select" /\ lastOp.path \in {"noMesh", "noCube"}
  /\ selectedCubeNameRef # NoCube

====
